---- MODULE Spec2Model ----
(***************************************************************************)
(* A model of mtor's download engine (pkg/torrent, pkg/peer, pkg/bitfield, *)
(* pkg/message).  The goroutines of download.start are processes; the Go   *)
(* channels work, pieces, death and result are the shared state.           *)
(***************************************************************************)
EXTENDS Integers, Sequences, FiniteSets, Bags, TLC

(* ----------------------------- bounds --------------------------------- *)

\* most peers the tracker returns
MaxPeers == 2

\* most pieces a torrent of the model has; pieces 8 and 9 are the pieces
\* whose bits live outside byte 0 of a bitfield
MaxPieces == 10

\* the values a byte of a downloaded block takes
ByteVals == {0, 1}

(* --------------------------- the torrent ------------------------------ *)

\* Torrent.PieceLength: bytes per piece
PieceLength == 2

\* the numbers of pieces the torrents of the model have
PieceCounts == {0, 1, MaxPieces}

\* Torrent.Length of the torrent with n pieces: the last piece is short
TorrentLength(n) == IF n = 0 THEN 0 ELSE PieceLength * (n - 1) + 1

\* Torrent.pieceLen
pieceLen(n, index) ==
    LET begin == index * PieceLength
        end   == begin + PieceLength
    IN  IF end > TorrentLength(n) THEN TorrentLength(n) - begin
        ELSE PieceLength

\* sha1.Sum, as a small checksum: a function of the bytes with collisions
RECURSIVE Sha1(_)
Sha1(b) ==
    IF b = <<>> THEN 1
    ELSE (3 * Sha1(SubSeq(b, 1, Len(b) - 1)) + b[Len(b)] + 1) % 7

\* the content of piece index in the torrent with n pieces
Data(n, index) == [k \in 1..pieceLen(n, index) |-> (index + k) % 2]

\* Torrent.PieceHashes
PieceHashes(n) == [i \in 0..(n - 1) |-> Sha1(Data(n, i))]

\* the byte slices of a length
Bufs(len) == [1..len -> ByteVals]

(* ---------------------------- bitfield -------------------------------- *)

\* 2^k
RECURSIVE Pow2(_)
Pow2(k) == IF k = 0 THEN 1 ELSE 2 * Pow2(k - 1)

\* Go's a / b for b > 0: the quotient is truncated toward zero
Quo(a, b) == IF a >= 0 THEN a \div b ELSE -((-a) \div b)

\* Go's a % b for b > 0: the remainder has the sign of a
Rem(a, b) == a - b * Quo(a, b)

\* Bitfield.indexOf; bits is the byte slice, 1-indexed here
indexOf(bits, i) ==
    [atByte     |-> Quo(i, 8),
     byteOffset |-> Rem(i, 8),
     inRange    |-> Quo(i, 8) > 0 /\ Quo(i, 8) < Len(bits)]

\* Bitfield.Has
Has(bits, i) ==
    LET ix == indexOf(bits, i)
    IN  IF ~ix.inRange THEN FALSE
        ELSE (bits[ix.atByte + 1] \div Pow2(7 - ix.byteOffset)) % 2 # 0

\* Bitfield.Set, as the byte slice after the call
Set(bits, i) ==
    LET ix == indexOf(bits, i)
    IN  IF ~ix.inRange THEN bits
        ELSE IF (bits[ix.atByte + 1] \div Pow2(7 - ix.byteOffset)) % 2 # 0
             THEN bits
             ELSE [bits EXCEPT ![ix.atByte + 1] = @ + Pow2(7 - ix.byteOffset)]

\* Bitfield.Clear, as the byte slice after the call
Clear(bits, i) ==
    LET ix == indexOf(bits, i)
    IN  IF ~ix.inRange THEN bits
        ELSE IF (bits[ix.atByte + 1] \div Pow2(7 - ix.byteOffset)) % 2 # 0
             THEN [bits EXCEPT ![ix.atByte + 1] = @ - Pow2(7 - ix.byteOffset)]
             ELSE bits

\* the bitfield payloads a peer sends for a torrent of n pieces: no piece,
\* or every piece
PeerBitfields(n) ==
    LET nbytes == (n + 7) \div 8
    IN  { [k \in 1..nbytes |-> 0], [k \in 1..nbytes |-> 255] }

(* ---------------------------- messages -------------------------------- *)

\* the message identifiers
Choke == 0
UnChoke == 1
Have == 4
Bitfield == 5
Request == 6
Piece == 7

\* message.ProtocolName
ProtocolName == "BitTorrent protocol"

\* Torrent.InfoHash
InfoHash == 1

\* Torrent.Name, the client's identifier
Name == 1

\* message.Read returning an error
ReadErr == [err |-> TRUE, nil |-> TRUE, Identifier |-> -1, Payload |-> <<>>]

\* message.Read returning nil, nil: a frame of length 0, the keep-alive
KeepAlive == [err |-> FALSE, nil |-> TRUE, Identifier |-> -1, Payload |-> <<>>]

\* message.Read returning a message
Message(id, payload) ==
    [err |-> FALSE, nil |-> FALSE, Identifier |-> id, Payload |-> payload]

\* what message.Read returns for the first frame a peer sends after its
\* handshake, for a torrent of n pieces
FirstFrames(n) ==
    {ReadErr, KeepAlive} \cup
    {Message(id, p) : id \in {UnChoke, Have, Bitfield}, p \in PeerBitfields(n)}

\* the handshakes a peer sends
Handshakes ==
    [Protocol   : {ProtocolName, "BitTorrent protocoL", ""},
     Reserved   : {0, 1},
     InfoHash   : {InfoHash, InfoHash + 1},
     Identifier : {Name, Name + 1}]

\* message.NewHandshake
NewHandshake(hash, name) ==
    [Protocol |-> ProtocolName, Reserved |-> 0, InfoHash |-> hash,
     Identifier |-> name]

\* a verification that does not look at the info-hash
VerifyMutant(h, hash) ==
    IF h.Protocol # ProtocolName THEN "invalid protocol" ELSE "nil"

\* Handshake.Verify: the error it returns
Verify(h, hash) ==
    IF h.Protocol # ProtocolName THEN "invalid protocol"
    ELSE IF h.InfoHash # hash THEN "invalid infohash"
    ELSE "nil"

\* what Conn.handshake finds on the socket: the write fails, the read of the
\* peer's handshake fails, or a handshake is read
HandshakeIO ==
    {[writeErr |-> TRUE, readErr |-> FALSE, res |-> NewHandshake(0, 0)],
     [writeErr |-> FALSE, readErr |-> TRUE, res |-> NewHandshake(0, 0)]} \cup
    {[writeErr |-> FALSE, readErr |-> FALSE, res |-> h] : h \in Handshakes}

\* Conn.handshake: the error it returns
handshake(io, hash) ==
    IF io.writeErr THEN "write error"
    ELSE IF io.readErr THEN "read error"
    ELSE Verify(io.res, hash)

\* Conn.getBitfield on the result r of message.Read: msg.Identifier is read
\* through msg without a nil test, so the keep-alive frame panics
getBitfield(r) ==
    IF r.err THEN [panic |-> FALSE, err |-> "read error", bits |-> <<>>]
    ELSE IF r.nil THEN [panic |-> TRUE, err |-> "nil", bits |-> <<>>]
    ELSE IF r.Identifier # Bitfield
         THEN [panic |-> FALSE, err |-> "expected bitfield", bits |-> <<>>]
         ELSE [panic |-> FALSE, err |-> "nil", bits |-> r.Payload]

\* peer.NewConn: whether it panics, the error it returns, the state it leaves
\* the socket in, and the fields of the Conn it returns
NewConn(dialErr, io, r) ==
    IF dialErr
    THEN [panic |-> FALSE, err |-> "dial error", sock |-> "none",
          nil |-> TRUE, Choked |-> TRUE, Bitfield |-> <<>>]
    ELSE IF handshake(io, InfoHash) # "nil"
    THEN [panic |-> FALSE, err |-> handshake(io, InfoHash), sock |-> "open",
          nil |-> TRUE, Choked |-> TRUE, Bitfield |-> <<>>]
    ELSE LET b == getBitfield(r)
         IN  IF b.panic \/ b.err # "nil"
             THEN [panic |-> b.panic, err |-> b.err, sock |-> "open",
                   nil |-> TRUE, Choked |-> TRUE, Bitfield |-> <<>>]
             ELSE [panic |-> FALSE, err |-> "nil", sock |-> "open",
                   nil |-> FALSE, Choked |-> TRUE, Bitfield |-> b.bits]

\* what NewConn can do for a torrent of n pieces, over every answer of the
\* network and the peer
NewConnResults ==
    [n \in PieceCounts |->
        {NewConn(dialErr, io, r) :
            dialErr \in BOOLEAN, io \in HandshakeIO, r \in FirstFrames(n)}]

(* ------------------------------ state --------------------------------- *)

VARIABLES
    pieceNum,      \* len(d.torrent.PieceHashes)
    peers,         \* d.peers
    peerNum,       \* d.peerNum
    work,          \* d.work: the queued work items, a bag (a receive may
                   \* take any of them, the oldest included)
    workClosed,    \* close(d.work) has run
    pieces,        \* d.pieces: the queued piece results
    piecesClosed,  \* close(d.pieces) has run
    deathClosed,   \* close(d.death) has run
    mainPc,        \* position of download.start
    err,           \* the error start returns
    watcherPc,     \* position of checkWorkers
    collectorPc,   \* position of managePieces
    done,          \* managePieces' loop counter
    feederPc,      \* position of scheduleWork
    feedIdx,       \* scheduleWork's loop index
    startPc,       \* position of startWorkers
    sess,          \* the connectToPeer goroutines
    putLog,        \* the calls of manager.Put, in order
    crashed,       \* a goroutine panicked
    dl,            \* one connection's calls of downloadPiece, step by step
    cn,            \* one call of peer.NewConn, step by step
    mgr,           \* a piece manager and the calls made on it
    collector,     \* one run of managePieces against a PieceManager
    bitfield,      \* a Bitfield and the calls made on it
    codec          \* one run of an encoder, decoder or parser on an input

\* the variables of the goroutines of download.start
downloadVars == <<pieceNum, peers, peerNum, work, workClosed, pieces,
                  piecesClosed, deathClosed, mainPc, err, watcherPc,
                  collectorPc, done, feederPc, feedIdx, startPc, sess,
                  putLog, crashed>>

\* the variables of the component specifications
auxVars == <<dl, cn, mgr, collector, bitfield, codec>>

vars == <<downloadVars, auxVars>>

Sessions == 1..MaxPeers

\* no work item held
NoPiece == [index |-> -1, hash |-> -1, length |-> 0]

\* conn == nil
NoConn == [Bitfield |-> <<>>, nil |-> TRUE]

\* the work channel made one item too small
WorkCapMutant == pieceNum - 1

\* cap(d.work), set by download.init
WorkCap == pieceNum

\* cap(d.pieces), set by download.init
PiecesCap == pieceNum

\* the work item scheduleWork builds for an index
WorkItem(index) ==
    [index  |-> index,
     hash   |-> PieceHashes(pieceNum)[index],
     length |-> pieceLen(pieceNum, index)]

\* the component specifications at rest
AuxOff ==
    /\ dl = [pc |-> "off"]
    /\ cn = [pc |-> "off"]
    /\ mgr = [pc |-> "off"]
    /\ collector = [pc |-> "off"]
    /\ bitfield = [pc |-> "off"]
    /\ codec = [pc |-> "off"]

Init ==
    /\ AuxOff
    /\ pieceNum \in PieceCounts
    /\ peers = <<>>
    /\ peerNum = 0
    /\ work = EmptyBag
    /\ workClosed = FALSE
    /\ pieces = <<>>
    /\ piecesClosed = FALSE
    /\ deathClosed = FALSE
    /\ mainPc = "loadPeers"
    /\ err = "nil"
    /\ watcherPc = "off"
    /\ collectorPc = "off"
    /\ done = 0
    /\ feederPc = "off"
    /\ feedIdx = 0
    /\ startPc = "off"
    /\ sess = [s \in Sessions |->
                  [pc |-> "off", piece |-> NoPiece, conn |-> NoConn,
                   sock |-> "none", block |-> <<>>, requested |-> FALSE]]
    /\ putLog = <<>>
    /\ crashed = FALSE

(* ------------------------- download.start ----------------------------- *)

\* start: d.init() and d.loadPeers(); a tracker or peer-list error is returned
loadPeers ==
    /\ ~crashed
    /\ mainPc = "loadPeers"
    /\ \E failed \in BOOLEAN, n \in 0..MaxPeers :
          IF failed
          THEN /\ mainPc' = "done"
               /\ err' = "ErrTracker"
               /\ peers' = <<>>
          ELSE /\ mainPc' = "spawn"
               /\ err' = "nil"
               /\ peers' = [i \in 1..n |-> i]
    /\ UNCHANGED <<auxVars,
                   pieceNum, peerNum, work, workClosed, pieces, piecesClosed,
                   deathClosed, watcherPc, collectorPc, done, feederPc,
                   feedIdx, startPc, sess, putLog, crashed>>

\* start: the four go statements; start then blocks on <-d.result
start ==
    /\ ~crashed
    /\ mainPc = "spawn"
    /\ mainPc' = "wait"
    /\ watcherPc' = "recv"
    /\ collectorPc' = IF done < WorkCap THEN "recv" ELSE "closeWork"
    /\ feederPc' = "run"
    /\ startPc' = "run"
    /\ UNCHANGED <<auxVars,
                   pieceNum, peers, peerNum, work, workClosed, pieces,
                   piecesClosed, deathClosed, err, done, feedIdx, sess,
                   putLog, crashed>>

\* startWorkers: record the peer count, start one connectToPeer per peer
startWorkers ==
    /\ ~crashed
    /\ startPc = "run"
    /\ startPc' = "done"
    /\ peerNum' = Len(peers)
    /\ sess' = [s \in Sessions |->
                   IF s <= Len(peers) THEN [sess[s] EXCEPT !.pc = "connect"]
                   ELSE sess[s]]
    /\ UNCHANGED <<auxVars,
                   pieceNum, peers, work, workClosed, pieces, piecesClosed,
                   deathClosed, mainPc, err, watcherPc, collectorPc, done,
                   feederPc, feedIdx, putLog, crashed>>

\* the effect of the send d.work <- p: it panics on a closed channel and
\* blocks while the buffer is full
SendWork(p) ==
    IF workClosed
    THEN /\ crashed' = TRUE
         /\ UNCHANGED work
    ELSE /\ BagCardinality(work) < WorkCap
         /\ work' = work (+) SetToBag({p})
         /\ UNCHANGED crashed

\* scheduleWork: one iteration, the send of the next work item
scheduleWork ==
    /\ ~crashed
    /\ feederPc = "run"
    /\ feedIdx < pieceNum
    /\ SendWork(WorkItem(feedIdx))
    /\ feedIdx' = feedIdx + 1
    /\ UNCHANGED <<auxVars,
                   pieceNum, peers, peerNum, workClosed, pieces,
                   piecesClosed, deathClosed, mainPc, err, watcherPc,
                   collectorPc, done, feederPc, startPc, sess, putLog>>

(* ------------------------- managePieces ------------------------------- *)

\* managePieces: one iteration, the receive from d.pieces and manager.Put,
\* whose error is not looked at
managePieces ==
    /\ ~crashed
    /\ collectorPc = "recv"
    /\ pieces # <<>>
    /\ putLog' = Append(putLog, Head(pieces))
    /\ pieces' = Tail(pieces)
    /\ done' = done + 1
    /\ collectorPc' = IF done + 1 < WorkCap THEN "recv" ELSE "closeWork"
    /\ UNCHANGED <<auxVars,
                   pieceNum, peers, peerNum, work, workClosed, piecesClosed,
                   deathClosed, mainPc, err, watcherPc, feederPc, feedIdx,
                   startPc, sess, crashed>>

\* managePieces: close(d.work)
closeWork ==
    /\ ~crashed
    /\ collectorPc = "closeWork"
    /\ workClosed' = TRUE
    /\ collectorPc' = "closePieces"
    /\ UNCHANGED <<auxVars,
                   pieceNum, peers, peerNum, work, pieces, piecesClosed,
                   deathClosed, mainPc, err, watcherPc, done, feederPc,
                   feedIdx, startPc, sess, putLog, crashed>>

\* managePieces: close(d.pieces)
closePieces ==
    /\ ~crashed
    /\ collectorPc = "closePieces"
    /\ piecesClosed' = TRUE
    /\ collectorPc' = "sendComplete"
    /\ UNCHANGED <<auxVars,
                   pieceNum, peers, peerNum, work, workClosed, pieces,
                   deathClosed, mainPc, err, watcherPc, done, feederPc,
                   feedIdx, startPc, sess, putLog, crashed>>

\* managePieces: d.result <- resultDownloadComplete, received by start
sendComplete ==
    /\ ~crashed
    /\ collectorPc = "sendComplete"
    /\ mainPc = "wait"
    /\ collectorPc' = "done"
    /\ mainPc' = "done"
    /\ err' = "nil"
    /\ UNCHANGED <<auxVars,
                   pieceNum, peers, peerNum, work, workClosed, pieces,
                   piecesClosed, deathClosed, watcherPc, done, feederPc,
                   feedIdx, startPc, sess, putLog, crashed>>

(* -------------------------- checkWorkers ------------------------------ *)

\* checkWorkers testing d.peerNum before it decrements it
reportDeathMutant(s) ==
    /\ ~crashed
    /\ sess[s].pc \in {"dying", "panicking"}
    /\ IF deathClosed
       THEN /\ crashed' = TRUE
            /\ UNCHANGED <<sess, peerNum, watcherPc>>
       ELSE /\ watcherPc = "recv"
            /\ sess' = [sess EXCEPT ![s].pc = IF @ = "panicking"
                                              THEN "panicked" ELSE "dead"]
            /\ peerNum' = peerNum - 1
            /\ watcherPc' = IF peerNum = 0 THEN "sendDead" ELSE "recv"
            /\ crashed' = (sess[s].pc = "panicking")
    /\ UNCHANGED <<auxVars,
                   pieceNum, peers, work, workClosed, pieces, piecesClosed,
                   deathClosed, mainPc, err, collectorPc, done, feederPc,
                   feedIdx, startPc, putLog>>

\* the deferred d.death <- &p of session s, received by checkWorkers, which
\* decrements d.peerNum; when the session is unwinding a panic the process
\* exits once the deferred send is done
reportDeath(s) ==
    /\ ~crashed
    /\ sess[s].pc \in {"dying", "panicking"}
    /\ IF deathClosed
       THEN /\ crashed' = TRUE
            /\ UNCHANGED <<sess, peerNum, watcherPc>>
       ELSE /\ watcherPc = "recv"
            /\ sess' = [sess EXCEPT ![s].pc = IF @ = "panicking"
                                              THEN "panicked" ELSE "dead"]
            /\ peerNum' = peerNum - 1
            /\ watcherPc' = IF peerNum - 1 = 0 THEN "sendDead" ELSE "recv"
            /\ crashed' = (sess[s].pc = "panicking")
    /\ UNCHANGED <<auxVars,
                   pieceNum, peers, work, workClosed, pieces, piecesClosed,
                   deathClosed, mainPc, err, collectorPc, done, feederPc,
                   feedIdx, startPc, putLog>>

\* checkWorkers: d.result <- resultAllWorkersDead, received by start
sendDead ==
    /\ ~crashed
    /\ watcherPc = "sendDead"
    /\ mainPc = "wait"
    /\ watcherPc' = "closeDeath"
    /\ mainPc' = "done"
    /\ err' = "ErrWorkersDead"
    /\ UNCHANGED <<auxVars,
                   pieceNum, peers, peerNum, work, workClosed, pieces,
                   piecesClosed, deathClosed, collectorPc, done, feederPc,
                   feedIdx, startPc, sess, putLog, crashed>>

\* checkWorkers: close(d.death) and return
closeDeath ==
    /\ ~crashed
    /\ watcherPc = "closeDeath"
    /\ deathClosed' = TRUE
    /\ watcherPc' = "done"
    /\ UNCHANGED <<auxVars,
                   pieceNum, peers, peerNum, work, workClosed, pieces,
                   piecesClosed, mainPc, err, collectorPc, done, feederPc,
                   feedIdx, startPc, sess, putLog, crashed>>

(* ------------------------- connectToPeer ------------------------------ *)

\* the variables no step of a session changes
coordVars == <<auxVars, pieceNum, peers, peerNum, workClosed, piecesClosed,
               deathClosed, mainPc, err, watcherPc, collectorPc, done,
               feederPc, feedIdx, startPc, putLog>>

\* peer.NewConn and the unchoke and interested writes: NewConn panics (the
\* deferred death report is then pending, and the process exits after it),
\* or it returns an error and no Conn, or it returns the Conn with the
\* peer's bitfield
connect(s) ==
    /\ ~crashed
    /\ sess[s].pc = "connect"
    /\ \E c \in NewConnResults[pieceNum] :
          sess' = [sess EXCEPT ![s] =
              IF c.panic
              THEN [@ EXCEPT !.pc = "panicking", !.sock = c.sock]
              ELSE IF c.err # "nil"
              THEN [@ EXCEPT !.pc = "dying", !.sock = c.sock]
              ELSE [@ EXCEPT !.pc = "recvWork", !.sock = c.sock,
                             !.conn = [Bitfield |-> c.Bitfield,
                                       nil |-> FALSE]]]
    /\ UNCHANGED <<coordVars, work, pieces, crashed>>

\* for piece := range d.work: a work item is received, and the bitfield
\* check on it is made
takeWork(s) ==
    /\ ~crashed
    /\ sess[s].pc = "recvWork"
    /\ \E p \in BagToSet(work) :
          /\ work' = work (-) SetToBag({p})
          /\ sess' = [sess EXCEPT ![s].piece = p,
                                  ![s].pc = IF ~Has(sess[s].conn.Bitfield, p.index)
                                            THEN "requeueLack"
                                            ELSE "download"]
    /\ UNCHANGED <<coordVars, pieces, crashed>>

\* a session that stays in its loop at the end of the work stream
workDoneMutant(s) ==
    /\ ~crashed
    /\ sess[s].pc = "recvWork"
    /\ workClosed
    /\ work = EmptyBag
    /\ UNCHANGED <<coordVars, sess, work, pieces, crashed>>

\* for piece := range d.work: the channel is closed and drained; the
\* deferred conn.Conn.Close() runs and the death report is pending
workDone(s) ==
    /\ ~crashed
    /\ sess[s].pc = "recvWork"
    /\ workClosed
    /\ work = EmptyBag
    /\ sess' = [sess EXCEPT ![s].pc = "dying", ![s].sock = "closed"]
    /\ UNCHANGED <<coordVars, work, pieces, crashed>>

\* the peer lacks the piece: the session gives the piece back and returns
requeueLackMutant(s) ==
    /\ ~crashed
    /\ sess[s].pc = "requeueLack"
    /\ SendWork(sess[s].piece)
    /\ sess' = [sess EXCEPT ![s].pc = "dying", ![s].piece = NoPiece,
                            ![s].requested = FALSE, ![s].sock = "closed"]
    /\ UNCHANGED <<coordVars, pieces>>

\* the peer lacks the piece: d.work <- piece; continue
requeueLack(s) ==
    /\ ~crashed
    /\ sess[s].pc = "requeueLack"
    /\ SendWork(sess[s].piece)
    /\ sess' = [sess EXCEPT ![s].pc = "recvWork", ![s].piece = NoPiece,
                            ![s].requested = FALSE]
    /\ UNCHANGED <<coordVars, pieces>>

\* what downloadPiece can return and leave behind, for any messages of the
\* peer: an error, or progress.buf (of p.length bytes, of any content); the
\* have messages read set bits of conn.Bitfield, and requests may have been
\* written
downloadPiece(conn, p) ==
    IF p.length <= 0
    THEN { [failed |-> FALSE, buf |-> <<>>, Bitfield |-> conn.Bitfield,
            requested |-> FALSE] }
    ELSE { [failed |-> f, buf |-> b, Bitfield |-> bf, requested |-> r] :
              f \in BOOLEAN, b \in Bufs(p.length),
              bf \in {conn.Bitfield} \cup
                     {Set(conn.Bitfield, i) : i \in 0..(MaxPieces - 1)},
              r \in BOOLEAN }

\* an integrity check that compares the lengths only
checkIntegrityMutant(p, block) == p.length = Len(block)

\* checkIntegrity
checkIntegrity(p, block) == p.hash = Sha1(block)

\* block, err := d.downloadPiece(conn, piece), and on success the integrity
\* check of the block
download(s) ==
    /\ ~crashed
    /\ sess[s].pc = "download"
    /\ \E o \in downloadPiece(sess[s].conn, sess[s].piece) :
          sess' = [sess EXCEPT
                 ![s].conn = [Bitfield |-> o.Bitfield, nil |-> FALSE],
                 ![s].requested = o.requested,
                 ![s].block = IF o.failed THEN <<>> ELSE o.buf,
                 ![s].pc = IF o.failed THEN "requeueErr"
                           ELSE IF ~checkIntegrity(sess[s].piece, o.buf)
                                THEN "requeueBad"
                                ELSE "sendPiece"]
    /\ UNCHANGED <<coordVars, work, pieces, crashed>>

\* downloadPiece failed: the session returns without giving the piece back
requeueErrMutant(s) ==
    /\ ~crashed
    /\ sess[s].pc = "requeueErr"
    /\ sess' = [sess EXCEPT ![s].pc = "dying", ![s].piece = NoPiece,
                            ![s].requested = FALSE, ![s].sock = "closed"]
    /\ UNCHANGED <<coordVars, work, pieces, crashed>>

\* downloadPiece failed: d.work <- piece; return.  The deferred
\* conn.Conn.Close() runs and the death report is pending
requeueErr(s) ==
    /\ ~crashed
    /\ sess[s].pc = "requeueErr"
    /\ SendWork(sess[s].piece)
    /\ sess' = [sess EXCEPT ![s].pc = "dying", ![s].piece = NoPiece,
                            ![s].requested = FALSE, ![s].sock = "closed"]
    /\ UNCHANGED <<coordVars, pieces>>

\* the integrity check failed: the piece is given back, and without the
\* continue the block is delivered as well
requeueBadMutant(s) ==
    /\ ~crashed
    /\ sess[s].pc = "requeueBad"
    /\ SendWork(sess[s].piece)
    /\ sess' = [sess EXCEPT ![s].pc = "sendPiece"]
    /\ UNCHANGED <<coordVars, pieces>>

\* the integrity check failed: d.work <- piece; continue
requeueBad(s) ==
    /\ ~crashed
    /\ sess[s].pc = "requeueBad"
    /\ SendWork(sess[s].piece)
    /\ sess' = [sess EXCEPT ![s].pc = "recvWork", ![s].piece = NoPiece,
                            ![s].requested = FALSE, ![s].block = <<>>]
    /\ UNCHANGED <<coordVars, pieces>>

\* d.pieces <- &pieceResult{index, value}
sendPiece(s) ==
    /\ ~crashed
    /\ sess[s].pc = "sendPiece"
    /\ IF piecesClosed
       THEN /\ crashed' = TRUE
            /\ UNCHANGED pieces
       ELSE /\ Len(pieces) < PiecesCap
            /\ pieces' = Append(pieces, [index |-> sess[s].piece.index,
                                         value |-> sess[s].block])
            /\ UNCHANGED crashed
    /\ sess' = [sess EXCEPT ![s].pc = "recvWork", ![s].piece = NoPiece,
                            ![s].requested = FALSE, ![s].block = <<>>]
    /\ UNCHANGED <<coordVars, work>>

\* a step of the goroutine connectToPeer(peers[s])
connectToPeer(s) ==
    \/ connect(s)
    \/ takeWork(s)
    \/ workDone(s)
    \/ requeueLack(s)
    \/ download(s)
    \/ requeueErr(s)
    \/ requeueBad(s)
    \/ sendPiece(s)

(* -------------------------- specification ----------------------------- *)

Next ==
    \/ loadPeers
    \/ start
    \/ startWorkers
    \/ scheduleWork
    \/ managePieces
    \/ closeWork
    \/ closePieces
    \/ sendComplete
    \/ \E s \in Sessions : reportDeath(s)
    \/ sendDead
    \/ closeDeath
    \/ \E s \in Sessions : connectToPeer(s)

Spec == Init /\ [][Next]_vars

\* the Go scheduler runs every goroutine that can take a step, and every
\* network operation ends (by success, error or deadline)
FairSpec ==
    /\ Spec
    /\ WF_vars(start)
    /\ WF_vars(startWorkers)
    /\ WF_vars(scheduleWork)
    /\ WF_vars(managePieces)
    /\ WF_vars(closeWork)
    /\ WF_vars(closePieces)
    /\ WF_vars(sendComplete)
    /\ WF_vars(sendDead)
    /\ WF_vars(closeDeath)
    /\ \A s \in Sessions : WF_vars(reportDeath(s))
    /\ \A s \in Sessions : WF_vars(connectToPeer(s))

\* the least the scheduler guarantees: while some goroutine can take a step,
\* some goroutine takes one
ProgressSpec == Spec /\ WF_vars(Next)

(* --------------------------- downloadPiece ---------------------------- *)

\* most messages the peer sends over the connection
MaxMsgs == 5

\* download.MaxBlockSize
MaxBlockSize == 16384

\* DownloadConfig.Backlog
Backlog == 2

\* the piece lengths of the work items: one short block, one full block and
\* a byte, two full blocks and a byte
PieceLens == {1, MaxBlockSize + 1, 2 * MaxBlockSize + 1}

\* the piece indices of the work items
WorkIndices == {8, 9}

\* a message payload, by its length and the integers it carries: a have
\* payload carries index, a piece payload carries index and begin and then
\* the block
Payload(size, index, begin) == [size |-> size, index |-> index, begin |-> begin]

\* Conn.Read returning an error
PeerReadErr ==
    [err |-> TRUE, nil |-> TRUE, Identifier |-> -1, Payload |-> Payload(0, 0, 0)]

\* Conn.Read returning the keep-alive
PeerKeepAlive ==
    [err |-> FALSE, nil |-> TRUE, Identifier |-> -1, Payload |-> Payload(0, 0, 0)]

\* what Conn.Read returns during the download of a piece of length len: an
\* error, a keep-alive, choke, unchoke, request (a message readMessage has
\* no case for), have messages (one of a wrong length), and piece messages
\* with blocks of 0, 1 and MaxBlockSize bytes at the block offsets and at
\* len, one too short to hold index and begin
PeerMessages(len) ==
    {PeerReadErr, PeerKeepAlive}
    \cup {Message(id, Payload(0, 0, 0)) : id \in {Choke, UnChoke, Request}}
    \cup {Message(Have, Payload(4, i, 0)) : i \in {8, 15, 16}}
    \cup {Message(Have, Payload(3, 0, 0))}
    \cup {Message(Piece, Payload(7, 8, 0))}
    \cup {Message(Piece, Payload(8 + n, i, b)) :
             n \in {0, 1, MaxBlockSize}, i \in WorkIndices,
             b \in {0, MaxBlockSize, 2 * MaxBlockSize, len}}

\* message.ParseHave: the error and the piece index
ParseHave(msg) ==
    IF msg.Identifier # Have THEN [err |-> TRUE, index |-> 0]
    ELSE IF msg.Payload.size # 4 THEN [err |-> TRUE, index |-> 0]
    ELSE [err |-> FALSE, index |-> msg.Payload.index]

\* a ParsePiece that does not compare the index
ParsePieceMutant(index, buflen, msg) ==
    IF msg.Identifier # Piece THEN [err |-> TRUE, n |-> 0, begin |-> 0]
    ELSE IF msg.Payload.size < 8 THEN [err |-> TRUE, n |-> 0, begin |-> 0]
    ELSE IF msg.Payload.begin >= buflen THEN [err |-> TRUE, n |-> 0, begin |-> 0]
    ELSE IF msg.Payload.begin + (msg.Payload.size - 8) > buflen
         THEN [err |-> TRUE, n |-> 0, begin |-> 0]
    ELSE [err |-> FALSE, n |-> msg.Payload.size - 8,
          begin |-> msg.Payload.begin]

\* message.ParsePiece for a buffer of buflen bytes: the error, the number of
\* bytes copied and the offset they are copied to
ParsePiece(index, buflen, msg) ==
    IF msg.Identifier # Piece THEN [err |-> TRUE, n |-> 0, begin |-> 0]
    ELSE IF msg.Payload.size < 8 THEN [err |-> TRUE, n |-> 0, begin |-> 0]
    ELSE IF msg.Payload.index # index THEN [err |-> TRUE, n |-> 0, begin |-> 0]
    ELSE IF msg.Payload.begin >= buflen THEN [err |-> TRUE, n |-> 0, begin |-> 0]
    ELSE IF msg.Payload.begin + (msg.Payload.size - 8) > buflen
         THEN [err |-> TRUE, n |-> 0, begin |-> 0]
    ELSE [err |-> FALSE, n |-> msg.Payload.size - 8,
          begin |-> msg.Payload.begin]

\* a block size that is MaxBlockSize for the last block too
BlockSizeMutant(d) == MaxBlockSize

\* the size of the next block downloadPiece requests
BlockSize(d) ==
    IF d.length - d.requested < MaxBlockSize THEN d.length - d.requested
    ELSE MaxBlockSize

\* a request loop that does not look at conn.Choked
CanRequestMutant(d) ==
    d.backlog < Backlog /\ d.requested < d.length

\* downloadPiece: the request loop runs one more time
CanRequest(d) ==
    ~d.Choked /\ d.backlog < Backlog /\ d.requested < d.length

\* pieceProgress.readMessage on the result msg of Conn.Read: the fields of
\* the progress and of the Conn afterwards, failed when it returns an error
readMessage(d, msg) ==
    LET r == [d EXCEPT !.read = @ + 1, !.last = msg]
    IN  IF msg.err THEN [r EXCEPT !.pc = "failed"]
        ELSE IF msg.nil THEN r
        ELSE IF msg.Identifier = Choke THEN [r EXCEPT !.Choked = TRUE]
        ELSE IF msg.Identifier = UnChoke THEN [r EXCEPT !.Choked = FALSE]
        ELSE IF msg.Identifier = Have
        THEN IF ParseHave(msg).err THEN [r EXCEPT !.pc = "failed"]
             ELSE [r EXCEPT !.Bitfield = Set(@, ParseHave(msg).index)]
        ELSE IF msg.Identifier = Piece
        THEN LET b == ParsePiece(d.index, d.length, msg)
             IN  IF b.err THEN [r EXCEPT !.pc = "failed"]
                 ELSE [r EXCEPT
                         !.downloaded = @ + b.n,
                         !.backlog = @ - 1,
                         !.written = @ \cup {[begin |-> b.begin, n |-> b.n]},
                         !.unanswered =
                             @ \ {[begin |-> b.begin, size |-> b.n]}]
        ELSE r

\* the Conn that NewConn returned for a peer's bitfield, before the first
\* downloadPiece
NewDownload(bits) ==
    LET c == NewConn(FALSE,
                     [writeErr |-> FALSE, readErr |-> FALSE,
                      res |-> NewHandshake(InfoHash, Name)],
                     Message(Bitfield, bits))
    IN  [pc |-> "idle", Choked |-> c.Choked, Bitfield |-> c.Bitfield,
         index |-> 0, length |-> 0, downloaded |-> 0, requested |-> 0,
         backlog |-> 0, written |-> {}, sent |-> <<>>, unanswered |-> {},
         read |-> 0, last |-> PeerKeepAlive]

\* the coordinator at rest, for the component specifications
CoordOff ==
    /\ pieceNum = 0
    /\ peers = <<>>
    /\ peerNum = 0
    /\ work = EmptyBag
    /\ workClosed = FALSE
    /\ pieces = <<>>
    /\ piecesClosed = FALSE
    /\ deathClosed = FALSE
    /\ mainPc = "loadPeers"
    /\ err = "nil"
    /\ watcherPc = "off"
    /\ collectorPc = "off"
    /\ done = 0
    /\ feederPc = "off"
    /\ feedIdx = 0
    /\ startPc = "off"
    /\ sess = [s \in Sessions |->
                  [pc |-> "off", piece |-> NoPiece, conn |-> NoConn,
                   sock |-> "none", block |-> <<>>, requested |-> FALSE]]
    /\ putLog = <<>>
    /\ crashed = FALSE

InitPiece ==
    /\ CoordOff
    /\ codec = [pc |-> "off"]
    /\ dl \in {NewDownload(b) : b \in PeerBitfields(MaxPieces)}
    /\ cn = [pc |-> "off"]
    /\ mgr = [pc |-> "off"]
    /\ collector = [pc |-> "off"]
    /\ bitfield = [pc |-> "off"]

\* connectToPeer: a work item is taken and downloadPiece is entered with a
\* fresh pieceProgress; the Conn is the one the last piece left
beginPiece ==
    /\ dl.pc = "idle"
    /\ \E i \in WorkIndices, len \in PieceLens :
          dl' = [dl EXCEPT !.pc = "loop", !.index = i, !.length = len,
                           !.downloaded = 0, !.requested = 0, !.backlog = 0,
                           !.written = {}, !.sent = <<>>, !.unanswered = {}]
    /\ UNCHANGED <<downloadVars, cn, mgr, collector, bitfield, codec>>

\* downloadPiece: one run of the request loop, conn.Request and the two
\* counters; a write error ends downloadPiece
request ==
    /\ dl.pc = "loop"
    /\ dl.downloaded < dl.length
    /\ CanRequest(dl)
    /\ \E writeErr \in BOOLEAN :
          dl' = IF writeErr THEN [dl EXCEPT !.pc = "failed"]
                ELSE [dl EXCEPT
                        !.sent = Append(@, [index |-> dl.index,
                                            begin |-> dl.requested,
                                            size |-> BlockSize(dl)]),
                        !.unanswered = @ \cup {[begin |-> dl.requested,
                                                size |-> BlockSize(dl)]},
                        !.backlog = @ + 1,
                        !.requested = @ + BlockSize(dl)]
    /\ UNCHANGED <<downloadVars, cn, mgr, collector, bitfield, codec>>

\* downloadPiece: the request loop is over, progress.readMessage()
receive ==
    /\ dl.pc = "loop"
    /\ dl.downloaded < dl.length
    /\ ~CanRequest(dl)
    /\ dl.read < MaxMsgs
    /\ \E msg \in PeerMessages(dl.length) : dl' = readMessage(dl, msg)
    /\ UNCHANGED <<downloadVars, cn, mgr, collector, bitfield, codec>>

\* downloadPiece: progress.downloaded has reached p.length, the buffer is
\* returned
returnPiece ==
    /\ dl.pc = "loop"
    /\ dl.downloaded >= dl.length
    /\ dl' = [dl EXCEPT !.pc = "idle"]
    /\ UNCHANGED <<downloadVars, cn, mgr, collector, bitfield, codec>>

NextPiece ==
    \/ beginPiece
    \/ request
    \/ receive
    \/ returnPiece

\* the calls of downloadPiece on one connection, for any messages of the peer
SpecPiece == InitPiece /\ [][NextPiece]_vars

(* ------------------------------ NewConn ------------------------------- *)

\* the events of one session's wire that are followed, at most
MaxWire == 8

\* a session before its dial, with what the network will answer: whether
\* the dial fails, what the handshake finds, and the result of message.Read
\* in getBitfield
NewSession(dialErr, io, r) ==
    [pc |-> "dial", dialErr |-> dialErr, io |-> io, r |-> r,
     sock |-> "none", nil |-> TRUE, Choked |-> FALSE, Bitfield |-> <<>>,
     hsErr |-> "nil", err |-> "nil", frames |-> 0, wire |-> <<>>,
     lost |-> FALSE]

InitConn ==
    /\ CoordOff
    /\ codec = [pc |-> "off"]
    /\ cn \in {NewSession(dialErr, io, r) :
                  dialErr \in BOOLEAN, io \in HandshakeIO,
                  r \in FirstFrames(MaxPieces)}
    /\ dl = [pc |-> "off"]
    /\ mgr = [pc |-> "off"]
    /\ collector = [pc |-> "off"]
    /\ bitfield = [pc |-> "off"]

\* NewConn: net.DialTimeout, and the Conn value made with Choked true
dial ==
    /\ cn.pc = "dial"
    /\ cn' = IF cn.dialErr
             THEN [cn EXCEPT !.pc = "failed", !.err = "dial error"]
             ELSE [cn EXCEPT !.pc = "handshake", !.sock = "open",
                             !.Choked = TRUE]
    /\ UNCHANGED <<downloadVars, dl, mgr, collector, bitfield, codec>>

\* NewConn: conn.handshake; on an error NewConn returns nil and the error,
\* and connectToPeer returns
shake ==
    /\ cn.pc = "handshake"
    /\ LET e == handshake(cn.io, InfoHash)
           w == IF cn.io.writeErr THEN <<>>
                ELSE IF cn.io.readErr THEN <<"handshake written">>
                ELSE <<"handshake written", "handshake read">>
       IN  cn' = [cn EXCEPT !.hsErr = e, !.err = e, !.wire = @ \o w,
                            !.pc = IF e # "nil" THEN "failed"
                                   ELSE "getBitfield"]
    /\ UNCHANGED <<downloadVars, dl, mgr, collector, bitfield, codec>>

\* NewConn: conn.getBitfield, which reads one frame; it panics, or NewConn
\* returns nil and the error, or the payload becomes conn.Bitfield and the
\* Conn is returned
readBitfield ==
    /\ cn.pc = "getBitfield"
    /\ LET b == getBitfield(cn.r)
       IN  cn' = [cn EXCEPT
                    !.frames = @ + 1,
                    !.wire = IF cn.r.err THEN @ ELSE Append(@, "frame read"),
                    !.err = b.err,
                    !.Bitfield = b.bits,
                    !.nil = b.panic \/ b.err # "nil",
                    !.pc = IF b.panic THEN "panic"
                           ELSE IF b.err # "nil" THEN "failed"
                           ELSE "unchoke"]
    /\ UNCHANGED <<downloadVars, dl, mgr, collector, bitfield, codec>>

\* a write on the connection after the deadlines are disabled: the
\* connection may be lost before it, and is not found again
Written(c, event, failure) ==
    (IF c.lost THEN {} ELSE {[c EXCEPT !.wire = Append(@, event)]})
       \cup {[c EXCEPT !.lost = TRUE, !.wire = Append(@, failure)]}

\* connectToPeer: conn.UnChoke(), whose error is not looked at
unchoke ==
    /\ cn.pc = "unchoke"
    /\ \E c \in Written(cn, "unchoke written", "unchoke failed") :
          cn' = [c EXCEPT !.pc = "interested"]
    /\ UNCHANGED <<downloadVars, dl, mgr, collector, bitfield, codec>>

\* a session that goes to its work loop without the interested message
interestedMutant ==
    /\ cn.pc = "interested"
    /\ cn' = [cn EXCEPT !.pc = "ready"]
    /\ UNCHANGED <<downloadVars, dl, mgr, collector, bitfield, codec>>

\* connectToPeer: conn.Interested(), whose error is not looked at; the
\* session is then at its work loop
interested ==
    /\ cn.pc = "interested"
    /\ \E c \in Written(cn, "interested written", "interested failed") :
          cn' = [c EXCEPT !.pc = "ready"]
    /\ UNCHANGED <<downloadVars, dl, mgr, collector, bitfield, codec>>

\* connectToPeer: for piece := range d.work receives a work item
takeItem ==
    /\ cn.pc = "ready"
    /\ Len(cn.wire) < MaxWire
    /\ cn' = [cn EXCEPT !.wire = Append(@, "work item taken")]
    /\ UNCHANGED <<downloadVars, dl, mgr, collector, bitfield, codec>>

\* downloadPiece: conn.Request for the work item held; on its error
\* downloadPiece and connectToPeer return and the deferred
\* conn.Conn.Close() runs
requestBlock ==
    /\ cn.pc = "ready"
    /\ Len(cn.wire) < MaxWire
    /\ \E k \in 1..Len(cn.wire) : cn.wire[k] = "work item taken"
    /\ \E c \in Written(cn, "request written", "request failed") :
          cn' = IF c.lost
                THEN [c EXCEPT !.pc = "closed", !.sock = "closed"]
                ELSE c
    /\ UNCHANGED <<downloadVars, dl, mgr, collector, bitfield, codec>>

\* connectToPeer: the work loop ends and the deferred conn.Conn.Close() runs
closeConn ==
    /\ cn.pc = "ready"
    /\ cn' = [cn EXCEPT !.pc = "closed", !.sock = "closed"]
    /\ UNCHANGED <<downloadVars, dl, mgr, collector, bitfield, codec>>

NextConn ==
    \/ dial
    \/ shake
    \/ readBitfield
    \/ unchoke
    \/ interested
    \/ takeItem
    \/ requestBlock
    \/ closeConn

\* one session's connection, from the dial to the close, for any answers
\* of the peer
SpecConn == InitConn /\ [][NextConn]_vars

(* ---------------------- managePieces and Put -------------------------- *)

\* the errors PieceManager.Put returns
PutErrors == {"nil", "ErrManagerClosed", "write error"}

\* managePieces at its start, for a torrent of n pieces: no piece received
NewCollector(n) ==
    [pc |-> IF 0 < n THEN "recv" ELSE "close", pieceNum |-> n, done |-> 0,
     stored |-> {}, failed |-> {}, result |-> "none"]

InitCollect ==
    /\ CoordOff
    /\ codec = [pc |-> "off"]
    /\ collector \in {NewCollector(n) : n \in PieceCounts}
    /\ dl = [pc |-> "off"]
    /\ cn = [pc |-> "off"]
    /\ mgr = [pc |-> "off"]
    /\ bitfield = [pc |-> "off"]

\* managePieces: one iteration; a piece not received before arrives on
\* d.pieces, manager.Put is called with it, and what Put returns is dropped
collect ==
    /\ collector.pc = "recv"
    /\ \E i \in (0..(collector.pieceNum - 1)) \
                  (collector.stored \cup collector.failed),
          e \in PutErrors :
          collector' =
             [collector EXCEPT
                !.stored = IF e = "nil" THEN @ \cup {i} ELSE @,
                !.failed = IF e = "nil" THEN @ ELSE @ \cup {i},
                !.done = @ + 1,
                !.pc = IF collector.done + 1 < collector.pieceNum
                       THEN "recv" ELSE "close"]
    /\ UNCHANGED <<downloadVars, dl, cn, mgr, bitfield, codec>>

\* managePieces: close(d.work) and close(d.pieces)
closeChannels ==
    /\ collector.pc = "close"
    /\ collector' = [collector EXCEPT !.pc = "send"]
    /\ UNCHANGED <<downloadVars, dl, cn, mgr, bitfield, codec>>

\* managePieces: d.result <- resultDownloadComplete; start returns nil and
\* DownloadPieces reports the download complete
complete ==
    /\ collector.pc = "send"
    /\ collector' = [collector EXCEPT !.pc = "done", !.result = "Completed"]
    /\ UNCHANGED <<downloadVars, dl, cn, mgr, bitfield, codec>>

NextCollect ==
    \/ collect
    \/ closeChannels
    \/ complete

\* managePieces with the pieces of the torrent arriving in any order, and
\* any result of each Put
SpecCollect == InitCollect /\ [][NextCollect]_vars

(* -------------------------- piece manager ----------------------------- *)

\* most calls made on the piece manager
MaxCalls == 5

\* the piece indices Put and Get are called with
StoreIndices == {0, 1}

\* manager.New: src is the empty string, written 0; the k-th directory that
\* os.MkdirTemp makes is written k.  dirs and files are the directories and
\* the piece files on the disk; initialised and closed record that an Init
\* has succeeded, and that a Close has succeeded since
New ==
    [src |-> 0, dirs |-> {}, files |-> {}, made |-> 0, calls |-> 0,
     last |-> [op |-> "New", ret |-> "nil"],
     initialised |-> FALSE, closed |-> FALSE]

\* piece.isClosed
isClosed(p) == p.src = 0

\* a call has been made on p and has returned ret
Returned(p, op, ret) ==
    [p EXCEPT !.calls = @ + 1, !.last = [op |-> op, ret |-> ret]]

InitManager ==
    /\ CoordOff
    /\ codec = [pc |-> "off"]
    /\ mgr = New
    /\ dl = [pc |-> "off"]
    /\ cn = [pc |-> "off"]
    /\ collector = [pc |-> "off"]
    /\ bitfield = [pc |-> "off"]

\* piece.Init: os.UserHomeDir or os.MkdirTemp fails, or src is the new
\* directory
ManagerInit ==
    /\ mgr.calls < MaxCalls
    /\ \E ok \in BOOLEAN :
          mgr' = IF ~ok THEN Returned(mgr, "Init", "error")
                 ELSE [Returned(mgr, "Init", "nil") EXCEPT
                         !.src = mgr.made + 1,
                         !.made = @ + 1,
                         !.dirs = @ \cup {mgr.made + 1},
                         !.initialised = TRUE,
                         !.closed = FALSE]
    /\ UNCHANGED <<downloadVars, dl, cn, collector, bitfield, codec>>

\* piece.Put: os.WriteFile fails when the directory is gone, and may fail
\* otherwise
ManagerPut ==
    /\ mgr.calls < MaxCalls
    /\ \E i \in StoreIndices, ok \in BOOLEAN :
          mgr' = IF isClosed(mgr)
                 THEN Returned(mgr, "Put", "ErrManagerClosed")
                 ELSE IF mgr.src \notin mgr.dirs \/ ~ok
                 THEN Returned(mgr, "Put", "error")
                 ELSE [Returned(mgr, "Put", "nil") EXCEPT
                         !.files = @ \cup {[dir |-> mgr.src, index |-> i]}]
    /\ UNCHANGED <<downloadVars, dl, cn, collector, bitfield, codec>>

\* piece.Get: os.ReadFile fails when the file is not there, and may fail
\* otherwise
ManagerGet ==
    /\ mgr.calls < MaxCalls
    /\ \E i \in StoreIndices, ok \in BOOLEAN :
          mgr' = IF isClosed(mgr)
                 THEN Returned(mgr, "Get", "ErrManagerClosed")
                 ELSE IF [dir |-> mgr.src, index |-> i] \notin mgr.files \/ ~ok
                 THEN Returned(mgr, "Get", "error")
                 ELSE Returned(mgr, "Get", "nil")
    /\ UNCHANGED <<downloadVars, dl, cn, collector, bitfield, codec>>

\* piece.Close: os.RemoveAll removes the directory and what is in it, and
\* returns nil also when the directory is not there; src is left as it is
ManagerClose ==
    /\ mgr.calls < MaxCalls
    /\ \E ok \in BOOLEAN :
          mgr' = IF isClosed(mgr)
                 THEN Returned(mgr, "Close", "ErrManagerClosed")
                 ELSE IF ~ok THEN Returned(mgr, "Close", "error")
                 ELSE [Returned(mgr, "Close", "nil") EXCEPT
                         !.dirs = @ \ {mgr.src},
                         !.files = {f \in @ : f.dir # mgr.src},
                         !.closed = TRUE]
    /\ UNCHANGED <<downloadVars, dl, cn, collector, bitfield, codec>>

NextManager ==
    \/ ManagerInit
    \/ ManagerPut
    \/ ManagerGet
    \/ ManagerClose

\* a piece manager under any sequence of at most MaxCalls calls
SpecManager == InitManager /\ [][NextManager]_vars

(* --------------------------- Bitfield calls --------------------------- *)

\* most bytes a Bitfield of the calls has
MaxBytes == 2

\* the values of the bytes of the Bitfields the calls start from
StartBytes == {0, 1, 128, 255}

\* the indices the methods are called with: the ends of each byte, and the
\* indices next to the ends of the bitfield
CallIndices == {-1, 0, 7, 8, 15, 16}

\* bitfield.New(bits), before any call
NewBitfield(bits) ==
    [bits |-> bits, prev |-> bits, op |-> "New", i |-> 0, ret |-> FALSE]

InitBitfield ==
    /\ CoordOff
    /\ codec = [pc |-> "off"]
    /\ bitfield \in {NewBitfield(b) :
                        b \in UNION {[1..n -> StartBytes] : n \in 0..MaxBytes}}
    /\ dl = [pc |-> "off"]
    /\ cn = [pc |-> "off"]
    /\ mgr = [pc |-> "off"]
    /\ collector = [pc |-> "off"]

\* a call of b.Has(i)
BitfieldHas ==
    /\ \E i \in CallIndices :
          bitfield' = [bits |-> bitfield.bits, prev |-> bitfield.bits,
                       op |-> "Has", i |-> i,
                       ret |-> Has(bitfield.bits, i)]
    /\ UNCHANGED <<downloadVars, dl, cn, mgr, collector, codec>>

\* a call of b.Set(i)
BitfieldSet ==
    /\ \E i \in CallIndices :
          bitfield' = [bits |-> Set(bitfield.bits, i), prev |-> bitfield.bits,
                       op |-> "Set", i |-> i, ret |-> FALSE]
    /\ UNCHANGED <<downloadVars, dl, cn, mgr, collector, codec>>

\* a call of b.Clear(i)
BitfieldClear ==
    /\ \E i \in CallIndices :
          bitfield' = [bits |-> Clear(bitfield.bits, i),
                       prev |-> bitfield.bits,
                       op |-> "Clear", i |-> i, ret |-> FALSE]
    /\ UNCHANGED <<downloadVars, dl, cn, mgr, collector, codec>>

NextBitfield ==
    \/ BitfieldHas
    \/ BitfieldSet
    \/ BitfieldClear

\* a Bitfield under any sequence of calls of Has, Set and Clear
SpecBitfield == InitBitfield /\ [][NextBitfield]_vars

(* -------------------------- message framing --------------------------- *)

\* most bytes the payload of a framed message has
MaxPayload == 2

\* the values a byte of a framed message takes
FrameBytes == {0, 1, 255}

\* the identifiers of the framed messages: message.id is any byte
FrameIds == {Choke, Bitfield, Piece, 255}

\* the *Message values Serialize is called on: nil, and every identifier
\* with every payload
Messages ==
    {KeepAlive} \cup
    {Message(id, p) :
        id \in FrameIds,
        p \in UNION {[1..n -> FrameBytes] : n \in 0..MaxPayload}}

\* binary.BigEndian.PutUint32
PutUint32(v) ==
    <<Quo(v, 16777216) % 256, Quo(v, 65536) % 256, Quo(v, 256) % 256,
      v % 256>>

\* binary.BigEndian.Uint32
Uint32(b) == b[1] * 16777216 + b[2] * 65536 + b[3] * 256 + b[4]

\* a Serialize whose length prefix leaves out the identifier byte
SerializeMutant(m) ==
    IF m.nil THEN <<0, 0, 0, 0>>
    ELSE PutUint32(Len(m.Payload)) \o <<m.Identifier>> \o m.Payload

\* Message.Serialize: [length] [id] [payload]; uint32(len(m.Payload) + 1)
\* is the number itself for the payloads of the model
Serialize(m) ==
    IF m.nil THEN <<0, 0, 0, 0>>
    ELSE PutUint32(Len(m.Payload) + 1) \o <<m.Identifier>> \o m.Payload

\* message.Read on the bytes r the reader holds: io.ReadFull fails when
\* the reader ends before the bytes asked for
Read(r) ==
    IF Len(r) < 4 THEN ReadErr
    ELSE LET length == Uint32(SubSeq(r, 1, 4))
         IN  IF length = 0 THEN KeepAlive
             ELSE IF Len(r) < 4 + length THEN ReadErr
             ELSE Message(r[5], SubSeq(r, 6, 4 + length))

InitMessage ==
    /\ CoordOff
    /\ codec \in {[pc |-> "message", m |-> m, frame |-> <<>>, whole |-> TRUE,
                   out |-> ReadErr] : m \in Messages}
    /\ dl = [pc |-> "off"]
    /\ cn = [pc |-> "off"]
    /\ mgr = [pc |-> "off"]
    /\ collector = [pc |-> "off"]
    /\ bitfield = [pc |-> "off"]

\* a call of m.Serialize(); the bytes are written to the connection
MessageSerialize ==
    /\ codec.pc = "message"
    /\ codec' = [codec EXCEPT !.pc = "frame", !.frame = Serialize(codec.m)]
    /\ UNCHANGED <<downloadVars, dl, cn, mgr, collector, bitfield>>

\* the sender writes its next message behind the frame
MessageFollow ==
    /\ codec.pc = "frame"
    /\ codec.whole
    /\ Len(codec.frame) <= 4 + 1 + MaxPayload
    /\ \E m \in Messages :
          codec' = [codec EXCEPT !.frame = codec.frame \o Serialize(m)]
    /\ UNCHANGED <<downloadVars, dl, cn, mgr, collector, bitfield>>

\* the connection ends inside the frame
MessageTruncate ==
    /\ codec.pc = "frame"
    /\ codec.whole
    /\ \E n \in 0..(Len(Serialize(codec.m)) - 1) :
          codec' = [codec EXCEPT !.frame = SubSeq(codec.frame, 1, n),
                                 !.whole = FALSE]
    /\ UNCHANGED <<downloadVars, dl, cn, mgr, collector, bitfield>>

\* a call of message.Read on the connection
MessageRead ==
    /\ codec.pc = "frame"
    /\ codec' = [codec EXCEPT !.pc = "read", !.out = Read(codec.frame)]
    /\ UNCHANGED <<downloadVars, dl, cn, mgr, collector, bitfield>>

NextMessage ==
    \/ MessageSerialize
    \/ MessageFollow
    \/ MessageTruncate
    \/ MessageRead

\* a message serialized, sent and read back
SpecMessage == InitMessage /\ [][NextMessage]_vars

(* ------------------------- handshake framing -------------------------- *)

\* the bytes of message.ProtocolName
ProtocolBytes ==
    <<66, 105, 116, 84, 111, 114, 114, 101, 110, 116, 32, 112, 114, 111, 116,
      111, 99, 111, 108>>

\* len(Handshake.Reserved)
ReservedLen == 8

\* len(Handshake.InfoHash) and len(Handshake.Identifier)
HashLen == 20

\* the byte arrays of a length the handshakes are built from
ByteArrays(n) ==
    {[k \in 1..n |-> 0], [k \in 1..n |-> k], [k \in 1..n |-> 256 - k]}

\* the Handshake values Serialize is called on, byte by byte
WireHandshakes ==
    [Protocol   : {ProtocolBytes, <<>>, <<66, 84>>},
     Reserved   : ByteArrays(ReservedLen),
     InfoHash   : ByteArrays(HashLen),
     Identifier : ByteArrays(HashLen)]

\* copy(dst, src) for a dst of n zero bytes
Copy(n, src) ==
    [k \in 1..n |-> IF k <= Len(src) THEN src[k] ELSE 0]

\* a Serialize that writes the identifier before the info-hash
HandshakeSerializeMutant(h) ==
    LET length == Len(h.Protocol) % 256
        buffer == <<length>> \o Copy(((1 + length) % 256) - 1, h.Protocol)
    IN  buffer \o h.Reserved \o h.Identifier \o h.InfoHash

\* Handshake.Serialize; length and 1+length are bytes
HandshakeSerialize(h) ==
    LET length == Len(h.Protocol) % 256
        buffer == <<length>> \o Copy(((1 + length) % 256) - 1, h.Protocol)
    IN  buffer \o h.Reserved \o h.InfoHash \o h.Identifier

\* message.ReadHandshake returning an error
HandshakeErr ==
    [err |-> TRUE, Protocol |-> <<>>, Reserved |-> <<>>, InfoHash |-> <<>>,
     Identifier |-> <<>>]

\* message.ReadHandshake on the bytes r the reader holds: each io.ReadFull
\* fails when the reader ends before the bytes asked for
ReadHandshake(r) ==
    IF Len(r) < 1 THEN HandshakeErr
    ELSE LET length == r[1]
             p      == 1 + length
             q      == p + ReservedLen
             h      == q + HashLen
             i      == h + HashLen
         IN  IF Len(r) < i THEN HandshakeErr
             ELSE [err        |-> FALSE,
                   Protocol   |-> SubSeq(r, 2, p),
                   Reserved   |-> SubSeq(r, p + 1, q),
                   InfoHash   |-> SubSeq(r, q + 1, h),
                   Identifier |-> SubSeq(r, h + 1, i)]

InitHandshake ==
    /\ CoordOff
    /\ codec \in {[pc |-> "handshake", h |-> h, bytes |-> <<>>,
                   whole |-> TRUE, out |-> HandshakeErr] :
                      h \in WireHandshakes}
    /\ dl = [pc |-> "off"]
    /\ cn = [pc |-> "off"]
    /\ mgr = [pc |-> "off"]
    /\ collector = [pc |-> "off"]
    /\ bitfield = [pc |-> "off"]

\* a call of h.Serialize(); the bytes are written to the connection
SerializeHandshake ==
    /\ codec.pc = "handshake"
    /\ codec' = [codec EXCEPT !.pc = "bytes",
                              !.bytes = HandshakeSerialize(codec.h)]
    /\ UNCHANGED <<downloadVars, dl, cn, mgr, collector, bitfield>>

\* the connection ends inside the handshake: inside the length byte, the
\* protocol, the reserved bytes, the info-hash or the identifier
TruncateHandshake ==
    /\ codec.pc = "bytes"
    /\ codec.whole
    /\ \E n \in {0, 1, Len(codec.bytes) - 2 * HashLen - 1,
                 Len(codec.bytes) - HashLen - 1, Len(codec.bytes) - 1} :
          codec' = [codec EXCEPT !.bytes = SubSeq(codec.bytes, 1, n),
                                 !.whole = FALSE]
    /\ UNCHANGED <<downloadVars, dl, cn, mgr, collector, bitfield>>

\* a call of message.ReadHandshake on the connection
ReadHandshakeCall ==
    /\ codec.pc = "bytes"
    /\ codec' = [codec EXCEPT !.pc = "read",
                              !.out = ReadHandshake(codec.bytes)]
    /\ UNCHANGED <<downloadVars, dl, cn, mgr, collector, bitfield>>

NextHandshake ==
    \/ SerializeHandshake
    \/ TruncateHandshake
    \/ ReadHandshakeCall

\* a handshake serialized, sent and read back
SpecHandshake == InitHandshake /\ [][NextHandshake]_vars

(* -------------------------- bencode scanner --------------------------- *)

\* most bytes an input enumerated byte by byte has
MaxInput == 5

\* the characters of the bytes 32..126, in order; byte 96 goes by its name
Printable ==
    <<" ", "!", "\"", "#", "$", "%", "&", "'", "(", ")", "*", "+", ",",
      "-", ".", "/", "0", "1", "2", "3", "4", "5", "6", "7", "8", "9", ":",
      ";", "<", "=", ">", "?", "@", "A", "B", "C", "D", "E", "F", "G", "H",
      "I", "J", "K", "L", "M", "N", "O", "P", "Q", "R", "S", "T", "U", "V",
      "W", "X", "Y", "Z", "[", "\\", "]", "^", "_", "grave", "a", "b",
      "c",
      "d", "e", "f", "g", "h", "i", "j", "k", "l", "m", "n", "o", "p", "q",
      "r", "s", "t", "u", "v", "w", "x", "y", "z", "{", "|", "}", "~">>

\* the byte of each character
AsciiCodes ==
    [c \in {Printable[k] : k \in 1..Len(Printable)} |->
        31 + CHOOSE k \in 1..Len(Printable) : Printable[k] = c]

\* the byte of a character
Ascii(c) == AsciiCodes[c]

\* []byte(str), for a string written character by character
B(str) == [k \in 1..Len(str) |-> Ascii(str[k])]

\* the Body of a step, for the value v that the step before it left
With(v, Body(_)) == Body(v)

\* scanner.eof
eof == -1

\* unicode.IsDigit on a byte or eof
IsDigit(r) == r \in Ascii("0")..Ascii("9")

\* a < b for Go strings: byte by byte, a proper prefix first
RECURSIVE StrLess(_, _)
StrLess(a, b) ==
    IF b = <<>> THEN FALSE
    ELSE IF a = <<>> THEN TRUE
    ELSE IF a[1] # b[1] THEN a[1] < b[1]
    ELSE StrLess(Tail(a), Tail(b))

\* strconv.Atoi on a string of digits; the lengths of the model are far
\* from its range error
RECURSIVE Atoi(_)
Atoi(lit) ==
    IF lit = <<>> THEN 0
    ELSE 10 * Atoi(SubSeq(lit, 1, Len(lit) - 1)) + (lit[Len(lit)] - Ascii("0"))

\* Token.RawString: the literal after its first ':'
RawString(t) ==
    LET colon == CHOOSE k \in 1..Len(t.Literal) :
                     /\ t.Literal[k] = Ascii(":")
                     /\ \A j \in 1..(k - 1) : t.Literal[j] # Ascii(":")
    IN  SubSeq(t.Literal, colon + 1, Len(t.Literal))

\* Token.RawNumber: the literal without its 'i' and 'e'
RawNumber(t) == SubSeq(t.Literal, 2, Len(t.Literal) - 1)

\* scanner.New
NewScanner(data) ==
    [Data |-> data, rdOffset |-> 0, offset |-> 0, Tokens |-> <<>>,
     err |-> "nil"]

\* Scanner.atEnd
atEnd(s) == s.rdOffset >= Len(s.Data)

\* Scanner.peek
peek(s) == IF atEnd(s) THEN eof ELSE s.Data[s.rdOffset + 1]

\* Scanner.next
next(s) == IF peek(s) # eof THEN [s EXCEPT !.rdOffset = @ + 1] ELSE s

\* Scanner.error and Scanner.runeError: the scanner with the error it returns
error(s, msg) == [s EXCEPT !.err = msg]

\* Scanner.literal
literal(s) == SubSeq(s.Data, s.offset + 1, s.rdOffset)

\* Scanner.emit, with the Scanner.reset it ends in
emit(s, t) ==
    [s EXCEPT !.Tokens = Append(@, [Type |-> t, Literal |-> literal(s),
                                    Offset |-> s.offset]),
              !.offset = s.rdOffset]

\* the loop of Scanner.scanNumber and the consume(d) after it
RECURSIVE scanDigits(_, _)
scanDigits(s, d) ==
    LET r == peek(s)
    IN  IF r # d /\ r # eof
        THEN IF ~IsDigit(r) THEN error(s, "invalid character in number literal")
             ELSE scanDigits(next(s), d)
        ELSE IF r = d THEN next(s)
        ELSE error(s, "unexpected end of input while scanning number")

\* Scanner.scanNumber
scanNumber(s, d) ==
    With(IF peek(s) = Ascii("-") THEN next(s) ELSE s, LAMBDA s1 :
        IF peek(s1) = d THEN error(s1, "looking for a number")
        ELSE IF ~IsDigit(peek(s1))
        THEN error(s1, "invalid character in number literal")
        ELSE IF peek(s1) = Ascii("0")
        THEN IF peek(s) = Ascii("-")
             THEN error(s1, "leading 0 in negative number literal")
             ELSE IF peek(next(s1)) = d THEN next(next(s1))
             ELSE IF IsDigit(peek(next(s1)))
             THEN error(next(s1), "leading zero in number")
             ELSE error(next(s1), "invalid character in number literal")
        ELSE scanDigits(s1, d))

\* Scanner.scanInt
scanInt(s) ==
    IF peek(s) # Ascii("i") THEN error(s, "looking for beginning of integer")
    ELSE With(scanNumber(next(s), Ascii("e")), LAMBDA s1 :
             IF s1.err # "nil" THEN s1 ELSE emit(s1, "NUMBER"))

\* a scanStr that does not test the length against the bytes that are left
scanStrMutant(s) ==
    IF ~IsDigit(peek(s)) THEN error(s, "looking for beginning of string")
    ELSE With(scanNumber(s, Ascii(":")), LAMBDA s1 :
             IF s1.err # "nil" THEN s1
             ELSE With(Atoi(SubSeq(literal(s1), 1, Len(literal(s1)) - 1)),
                       LAMBDA length :
                  IF Len(s1.Data) - s1.rdOffset < length
                  THEN emit([s1 EXCEPT !.rdOffset = Len(s1.Data)], "STRING")
                  ELSE emit([s1 EXCEPT !.rdOffset = @ + length], "STRING")))

\* Scanner.scanStr
scanStr(s) ==
    IF ~IsDigit(peek(s)) THEN error(s, "looking for beginning of string")
    ELSE With(scanNumber(s, Ascii(":")), LAMBDA s1 :
             IF s1.err # "nil" THEN s1
             ELSE With(Atoi(SubSeq(literal(s1), 1, Len(literal(s1)) - 1)),
                       LAMBDA length :
                  IF Len(s1.Data) - s1.rdOffset < length
                  THEN error([s1 EXCEPT !.rdOffset = Len(s1.Data)],
                             "unexpected end of input while scanning string")
                  ELSE emit([s1 EXCEPT !.rdOffset = @ + length], "STRING")))

RECURSIVE scanNext(_)

\* the loop of Scanner.scanList
RECURSIVE scanListLoop(_)
scanListLoop(s) ==
    IF peek(s) = Ascii("e") \/ peek(s) = eof THEN s
    ELSE With(scanNext(s), LAMBDA s1 :
             IF s1.err # "nil" THEN s1 ELSE scanListLoop(s1))

\* Scanner.scanList
scanList(s) ==
    IF peek(s) # Ascii("l") THEN error(s, "looking for beginning of list")
    ELSE With(scanListLoop(emit(next(s), "LIST")), LAMBDA s1 :
             IF s1.err # "nil" THEN s1
             ELSE IF peek(s1) = Ascii("e") THEN emit(next(s1), "END")
             ELSE error(s1, "unexpected end of input while scanning list"))

\* a key test that lets a key follow itself
KeyOrderedMutant(first, key, prev) == first \/ ~StrLess(key, prev)

\* Scanner.scanDict's test of a key against the key before it:
\* !(!first && key <= prev)
KeyOrdered(first, key, prev) == first \/ StrLess(prev, key)

\* the loop of Scanner.scanDict; prev and first are its variables
RECURSIVE scanDictLoop(_, _, _)
scanDictLoop(s, prev, first) ==
    IF peek(s) = Ascii("e") \/ peek(s) = eof THEN s
    ELSE With(scanStr(s), LAMBDA s1 :
             IF s1.err # "nil" THEN s1
             ELSE With(RawString(s1.Tokens[Len(s1.Tokens)]), LAMBDA key :
                  IF ~KeyOrdered(first, key, prev)
                  THEN error(s1, "improper ordering of dictionary keys")
                  ELSE With(scanNext(s1), LAMBDA s2 :
                           IF s2.err # "nil" THEN s2
                           ELSE scanDictLoop(s2, key, FALSE))))

\* Scanner.scanDict
scanDict(s) ==
    IF peek(s) # Ascii("d")
    THEN error(s, "looking for beginning of dictionary")
    ELSE With(scanDictLoop(emit(next(s), "DICT"), <<>>, TRUE), LAMBDA s1 :
             IF s1.err # "nil" THEN s1
             ELSE IF peek(s1) = Ascii("e") THEN emit(next(s1), "END")
             ELSE error(s1, "unexpected end of input while scanning dictionary"))

\* Scanner.scanNext
scanNext(s) ==
    LET r == peek(s)
    IN  IF r = Ascii("d") THEN scanDict(s)
        ELSE IF r = Ascii("l") THEN scanList(s)
        ELSE IF r = Ascii("i") THEN scanInt(s)
        ELSE IF IsDigit(r) THEN scanStr(s)
        ELSE IF r = eof THEN error(s, "unexpected end of input")
        ELSE error(s, "looking for beginning of value")

\* Scanner.Valid: the scanner after the call, with the error it returns
ScannerValid(s) ==
    With(scanNext(s), LAMBDA s1 :
        IF s1.err # "nil" THEN s1
        ELSE IF ~atEnd(s1)
        THEN error(s1, "invalid character after top-level value")
        ELSE s1)

\* scanner.Valid
Valid(data) == ScannerValid(NewScanner(data)).err = "nil"

\* the bytes the enumerated inputs are made of
ScanBytes == {Ascii(c) : c \in {"d", "l", "i", "e", "-", ":", "0", "1", "a"}}

\* every input of up to MaxInput of these bytes
ScanInputs == UNION {[1..n -> ScanBytes] : n \in 0..MaxInput}

InitValid ==
    /\ CoordOff
    /\ codec \in {[pc |-> "data", data |-> d, valid |-> FALSE] :
                      d \in ScanInputs}
    /\ dl = [pc |-> "off"]
    /\ cn = [pc |-> "off"]
    /\ mgr = [pc |-> "off"]
    /\ collector = [pc |-> "off"]
    /\ bitfield = [pc |-> "off"]

\* a call of scanner.Valid(data)
CallValid ==
    /\ codec.pc = "data"
    /\ codec' = [codec EXCEPT !.pc = "scanned", !.valid = Valid(codec.data)]
    /\ UNCHANGED <<downloadVars, dl, cn, mgr, collector, bitfield>>

NextValid == CallValid

\* scanner.Valid called on every short input
SpecValid == InitValid /\ [][NextValid]_vars

(* ----------------------- dictionaries to scan ------------------------- *)

\* most entries a dictionary built for the scanner has
MaxKeys == 3

\* fmt.Sprintf("%d", n) for n >= 0
RECURSIVE Digits(_)
Digits(n) ==
    IF n < 10 THEN <<Ascii("0") + n>>
    ELSE Append(Digits(Quo(n, 10)), Ascii("0") + Rem(n, 10))

\* fmt.Sprintf("%d", n)
Itoa(n) == IF n < 0 THEN <<Ascii("-")>> \o Digits(0 - n) ELSE Digits(n)

\* encoder.marshalString: <length>:<raw bytes>
marshalString(str) == Itoa(Len(str)) \o <<Ascii(":")>> \o str

\* the keys of the dictionaries: the empty key, keys that are prefixes of
\* one another, an upper-case key, and a key of ten bytes
DictKeys ==
    {<<>>, B(<<"a">>), B(<<"a", "a">>), B(<<"a", "b">>), B(<<"b">>),
     B(<<"B">>), [k \in 1..10 |-> Ascii("a")]}

\* the value every entry of a dictionary has
DictValues ==
    {B(<<"i", "0", "e">>), B(<<"0", ":">>), B(<<"l", "e">>),
     B(<<"d", "1", ":", "a", "i", "0", "e", "e">>)}

\* the bytes of the entries with the keys ks, in that order
RECURSIVE Entries(_, _)
Entries(ks, val) ==
    IF ks = <<>> THEN <<>>
    ELSE marshalString(Head(ks)) \o val \o Entries(Tail(ks), val)

\* the input that holds the dictionary with the keys ks at the top, as the
\* element of a list, or as the value of a key of another dictionary
DictInput(ks, val, nest) ==
    LET body == <<Ascii("d")>> \o Entries(ks, val) \o <<Ascii("e")>>
    IN  IF nest = "top" THEN body
        ELSE IF nest = "list"
        THEN <<Ascii("l")>> \o body \o <<Ascii("e")>>
        ELSE <<Ascii("d")>> \o marshalString(B(<<"k">>)) \o body
                 \o <<Ascii("e")>>

InitDictKeys ==
    /\ CoordOff
    /\ codec \in {[pc |-> "data", data |-> DictInput(ks, val, nest),
                   keys |-> ks, nest |-> nest, valid |-> FALSE] :
                      ks \in UNION {[1..n -> DictKeys] : n \in 1..MaxKeys},
                      val \in DictValues,
                      nest \in {"top", "list", "value"}}
    /\ dl = [pc |-> "off"]
    /\ cn = [pc |-> "off"]
    /\ mgr = [pc |-> "off"]
    /\ collector = [pc |-> "off"]
    /\ bitfield = [pc |-> "off"]

\* scanner.Valid called on dictionaries with every order of keys
SpecDictKeys == InitDictKeys /\ [][NextValid]_vars

(* -------------------------- bencode decoder --------------------------- *)

\* a Go type values are decoded into and encoded from: its reflect.Kind,
\* and the element type of a slice or pointer or the fields of a struct,
\* each field with its Go name, its bencode tag and its type
Kind(kind, of) == [kind |-> kind, of |-> of]

\* the zero value of a type: a struct is the tuple of its fields, a nil
\* interface and a nil pointer are marked
RECURSIVE Zero(_)
Zero(t) ==
    CASE t.kind = "int"       -> 0
      [] t.kind = "string"    -> <<>>
      [] t.kind = "slice"     -> <<>>
      [] t.kind = "interface" -> [k |-> "nil"]
      [] t.kind = "pointer"   -> [nil |-> TRUE]
      [] t.kind = "struct"    ->
            [i \in 1..Len(t.of) |-> Zero(t.of[i].type)]

\* strings.Cut(str, ","): where the first ',' is, Len(str) + 1 without one
Cut(str) ==
    IF \E k \in 1..Len(str) : str[k] = Ascii(",")
    THEN CHOOSE k \in 1..Len(str) :
             /\ str[k] = Ascii(",")
             /\ \A j \in 1..(k - 1) : str[j] # Ascii(",")
    ELSE Len(str) + 1

\* parseField: whether the field is kept, its bencode name and its options
parseField(f) ==
    LET name == SubSeq(f.Tag, 1, Cut(f.Tag) - 1)
    IN  [ok      |-> f.Tag # B(<<"-">>),
         name    |-> IF name = <<>> THEN f.Name ELSE name,
         options |-> SubSeq(f.Tag, Cut(f.Tag) + 1, Len(f.Tag))]

\* strings.EqualFold on ASCII strings
EqualFold(a, b) ==
    LET lower(c) == IF c \in Ascii("A")..Ascii("Z") THEN c + 32 ELSE c
    IN  /\ Len(a) = Len(b)
        /\ \A k \in 1..Len(a) : lower(a[k]) = lower(b[k])

\* decoder.dict's choice of the field for a key, 0 for no field: the last
\* kept field of that name (fs.names), or else the first kept field whose
\* name matches under case folding
FieldFor(t, key) ==
    LET kept  == {i \in 1..Len(t.of) : parseField(t.of[i]).ok}
        exact == {i \in kept : parseField(t.of[i]).name = key}
        fold  == {i \in kept : EqualFold(key, parseField(t.of[i]).name)}
        Max(S) == CHOOSE i \in S : \A j \in S : j <= i
        Min(S) == CHOOSE i \in S : \A j \in S : i <= j
    IN  IF exact # {} THEN Max(exact)
        ELSE IF fold # {} THEN Min(fold)
        ELSE 0

\* decoder.peek().Type at the offset o of the token stream
peekType(toks, o) == IF o >= Len(toks) THEN "ILLEGAL" ELSE toks[o + 1].Type

\* strconv.ParseInt(literal, 10, 64); the literals of the model are far
\* from its range error
ParseInt(lit) ==
    IF lit[1] = Ascii("-") THEN 0 - Atoi(Tail(lit)) ELSE Atoi(lit)

\* what a decoding step leaves: a panic, the error returned, the offset in
\* the token stream and the value decoded
Decoded(o, v) == [panic |-> FALSE, err |-> "nil", o |-> o, v |-> v]

\* panic(syntaxPanicMsg)
SyntaxPanic(o) == [panic |-> TRUE, err |-> "nil", o |-> o, v |-> 0]

\* return &UnmarshalTypeError{...}
TypeError(o) ==
    [panic |-> FALSE, err |-> "UnmarshalTypeError", o |-> o, v |-> 0]

RECURSIVE valueInterface(_, _), value(_, _, _, _)

\* the loop of decoder.dictInterface and the mustConsume(token.END) after it
RECURSIVE dictInterfaceLoop(_, _, _)
dictInterfaceLoop(toks, o, v) ==
    IF peekType(toks, o) = "STRING"
    THEN With(valueInterface(toks, o + 1), LAMBDA r :
             IF r.panic \/ r.err # "nil" THEN r
             ELSE dictInterfaceLoop(toks, r.o,
                                    (RawString(toks[o + 1]) :> r.v) @@ v))
    ELSE IF peekType(toks, o) = "END"
    THEN Decoded(o + 1, [k |-> "map", v |-> v])
    ELSE SyntaxPanic(o)

\* the loop of decoder.listInterface
RECURSIVE listInterfaceLoop(_, _, _)
listInterfaceLoop(toks, o, v) ==
    IF peekType(toks, o) = "END"
    THEN Decoded(o + 1, [k |-> "slice", v |-> v])
    ELSE With(valueInterface(toks, o), LAMBDA r :
             IF r.panic \/ r.err # "nil" THEN r
             ELSE listInterfaceLoop(toks, r.o, Append(v, r.v)))

\* decoder.valueInterface, with dictInterface, listInterface,
\* numberInterface and stringInterface
valueInterface(toks, o) ==
    CASE peekType(toks, o) = "DICT" ->
            dictInterfaceLoop(toks, o + 1, <<>>)
      [] peekType(toks, o) = "LIST" ->
            listInterfaceLoop(toks, o + 1, <<>>)
      [] peekType(toks, o) = "NUMBER" ->
            Decoded(o + 1, [k |-> "int64",
                            v |-> ParseInt(RawNumber(toks[o + 1]))])
      [] peekType(toks, o) = "STRING" ->
            Decoded(o + 1, [k |-> "string", v |-> RawString(toks[o + 1])])
      [] OTHER -> SyntaxPanic(o)

\* the loop of decoder.dict on a struct and the mustConsume(token.END)
\* after it: for a key without a field nothing is consumed
RECURSIVE dictLoop(_, _, _, _)
dictLoop(toks, o, t, cur) ==
    IF peekType(toks, o) = "STRING"
    THEN With(FieldFor(t, RawString(toks[o + 1])), LAMBDA i :
             IF i = 0 THEN dictLoop(toks, o + 1, t, cur)
             ELSE With(value(toks, o + 1, t.of[i].type, cur[i]), LAMBDA r :
                      IF r.panic \/ r.err # "nil" THEN r
                      ELSE dictLoop(toks, r.o, t, [cur EXCEPT ![i] = r.v])))
    ELSE IF peekType(toks, o) = "END" THEN Decoded(o + 1, cur)
    ELSE SyntaxPanic(o)

\* the loop of decoder.list on a slice and the mustConsume(token.END)
\* after it; i counts the elements decoded
RECURSIVE listLoop(_, _, _, _, _)
listLoop(toks, o, t, cur, i) ==
    IF peekType(toks, o) = "END" THEN Decoded(o + 1, cur)
    ELSE IF peekType(toks, o) = "ILLEGAL" THEN SyntaxPanic(o)
    ELSE With(IF i >= Len(cur) THEN Append(cur, Zero(t.of)) ELSE cur,
              LAMBDA grown :
             With(value(toks, o, t.of, grown[i + 1]), LAMBDA r :
                 IF r.panic \/ r.err # "nil" THEN r
                 ELSE listLoop(toks, r.o, t, [grown EXCEPT ![i + 1] = r.v],
                               i + 1)))

\* decoder.value into a variable of type t that holds cur, with dict, list,
\* number, string and indirect
value(toks, o, t, cur) ==
    IF t.kind = "pointer"
    THEN With(value(toks, o, t.of, IF cur.nil THEN Zero(t.of) ELSE cur.v),
              LAMBDA r :
             IF r.panic \/ r.err # "nil" THEN r
             ELSE Decoded(r.o, [nil |-> FALSE, v |-> r.v]))
    ELSE CASE peekType(toks, o) = "DICT" ->
                 IF t.kind = "struct" THEN dictLoop(toks, o + 1, t, cur)
                 ELSE IF t.kind = "interface" THEN valueInterface(toks, o)
                 ELSE TypeError(o)
           [] peekType(toks, o) = "LIST" ->
                 IF t.kind = "slice" THEN listLoop(toks, o + 1, t, cur, 0)
                 ELSE IF t.kind = "interface" THEN valueInterface(toks, o)
                 ELSE TypeError(o)
           [] peekType(toks, o) = "NUMBER" ->
                 IF t.kind = "int"
                 THEN Decoded(o + 1, ParseInt(RawNumber(toks[o + 1])))
                 ELSE IF t.kind = "interface" THEN valueInterface(toks, o)
                 ELSE TypeError(o + 1)
           [] peekType(toks, o) = "STRING" ->
                 IF t.kind = "string"
                 THEN Decoded(o + 1, RawString(toks[o + 1]))
                 ELSE IF t.kind = "interface" THEN valueInterface(toks, o)
                 ELSE TypeError(o + 1)
           [] OTHER -> SyntaxPanic(o)

\* bencode.Unmarshal(data, v) for v a pointer to a zero variable of type t
Unmarshal(data, t) ==
    With(ScannerValid(NewScanner(data)), LAMBDA s :
        IF s.err # "nil"
        THEN [panic |-> FALSE, err |-> s.err, o |-> 0, v |-> 0]
        ELSE value(s.Tokens, 0, t, Zero(t)))

\* the struct type T of the decoder's test
T ==
    Kind("struct",
         <<[Name |-> B(<<"A">>), Tag |-> B(<<"B">>),
            type |-> Kind("string", <<>>)],
           [Name |-> B(<<"B">>), Tag |-> B(<<"-", ",">>),
            type |-> Kind("string", <<>>)],
           [Name |-> B(<<"C">>), Tag |-> <<>>, type |-> Kind("string", <<>>)],
           [Name |-> B(<<"X">>), Tag |-> <<>>, type |-> Kind("string", <<>>)],
           [Name |-> B(<<"Y">>), Tag |-> <<>>, type |-> Kind("string", <<>>)],
           [Name |-> B(<<"Z">>), Tag |-> B(<<"-">>),
            type |-> Kind("string", <<>>)]>>)

\* the keys of the dictionaries decoded into T, in order: the keys of the
\* fields A, B, C, X and Y, and the keys D and Z that no field has
TKeys == <<"-", "B", "C", "D", "X", "Y", "Z">>

\* the value each key of a field has in the dictionaries
TValues ==
    [c \in {"-", "B", "C", "X", "Y"} |->
        CASE c = "-" -> B(<<"r", "a", "t">>)
          [] c = "B" -> B(<<"b", "a", "t">>)
          [] c = "C" -> B(<<"c", "o", "w">>)
          [] c = "X" -> B(<<"c", "a", "t">>)
          [] c = "Y" -> B(<<"d", "o", "g">>)]

\* the values the key without a field has: a string, a number, two lists
\* and two dictionaries
UnknownValues ==
    {B(<<"3", ":", "n", "i", "l">>), B(<<"i", "1", "e">>), B(<<"l", "e">>),
     B(<<"l", "i", "1", "e", "e">>), B(<<"d", "e">>),
     B(<<"d", "1", ":", "a", "i", "1", "e", "e">>)}

\* the bytes of the entries from the kth key on: the keys of present with
\* their values and the key unknown with the value uval
RECURSIVE TEntries(_, _, _, _)
TEntries(k, present, unknown, uval) ==
    IF k > Len(TKeys) THEN <<>>
    ELSE (IF TKeys[k] \in present
          THEN marshalString(B(<<TKeys[k]>>))
                   \o marshalString(TValues[TKeys[k]])
          ELSE IF TKeys[k] = unknown
          THEN marshalString(B(<<TKeys[k]>>)) \o uval
          ELSE <<>>)
         \o TEntries(k + 1, present, unknown, uval)

InitStruct ==
    /\ CoordOff
    /\ codec \in {[pc |-> "data", type |-> T,
                   data |-> <<Ascii("d")>> \o TEntries(1, pr, un, uv)
                                \o <<Ascii("e")>>,
                   present |-> pr, unknown |-> un, uval |-> uv,
                   out |-> Decoded(0, 0)] :
                      pr \in SUBSET {"-", "B", "C", "X", "Y"},
                      un \in {"D", "Z"}, uv \in UnknownValues}
    /\ dl = [pc |-> "off"]
    /\ cn = [pc |-> "off"]
    /\ mgr = [pc |-> "off"]
    /\ collector = [pc |-> "off"]
    /\ bitfield = [pc |-> "off"]

\* a call of bencode.Unmarshal(data, v), v a pointer to a zero variable
CallUnmarshal ==
    /\ codec.pc = "data"
    /\ codec' = [codec EXCEPT !.pc = "decoded",
                              !.out = Unmarshal(codec.data, codec.type)]
    /\ UNCHANGED <<downloadVars, dl, cn, mgr, collector, bitfield>>

NextUnmarshal == CallUnmarshal

\* dictionaries with a key that has no field, decoded into a T
SpecStruct == InitStruct /\ [][NextUnmarshal]_vars

(* -------------------------- bencode encoder --------------------------- *)

\* most elements a list built for the encoder has
MaxElems == 2

\* the encoder after a step: whether it panicked, and e.data
Encoded(data) == [panic |-> FALSE, data |-> data]

\* reflect's panic on the zero Value that v.Elem() of a nil pointer or a
\* nil interface is: marshal's default case calls v.Type() on it
ElemPanic == [panic |-> TRUE, data |-> <<>>]

\* e.data after the step b follows the step a; nothing follows a panic
Follow(a, b) ==
    IF a.panic THEN a ELSE [panic |-> b.panic, data |-> a.data \o b.data]

RECURSIVE SortKeysMutant(_)
SortKeysMutant(S) ==
    IF S = {} THEN <<>>
    ELSE LET m == CHOOSE x \in S : \A y \in S \ {x} : StrLess(y, x)
         IN  <<m>> \o SortKeysMutant(S \ {m})

\* sort.Slice(keys, less by string): the keys of S in ascending order
RECURSIVE SortKeys(_)
SortKeys(S) ==
    IF S = {} THEN <<>>
    ELSE LET m == CHOOSE x \in S : \A y \in S \ {x} : StrLess(x, y)
         IN  <<m>> \o SortKeys(S \ {m})

RECURSIVE orderMutant(_, _)
orderMutant(t, S) ==
    IF S = {} THEN <<>>
    ELSE LET m == CHOOSE i \in S : \A j \in S : i <= j
         IN  <<m>> \o orderMutant(t, S \ {m})

\* structFields.order on the fields(v) whose indices are in S: the indices
\* by ascending name
RECURSIVE order(_, _)
order(t, S) ==
    IF S = {} THEN <<>>
    ELSE LET m == CHOOSE i \in S : \A j \in S \ {i} :
                      \/ StrLess(parseField(t.of[i]).name,
                                 parseField(t.of[j]).name)
                      \/ /\ parseField(t.of[i]).name = parseField(t.of[j]).name
                         /\ i < j
         IN  <<m>> \o order(t, S \ {m})

\* whether the field is to be left out when empty: "omitempty" is one of
\* the comma-separated options of its tag
omitempty(key) ==
    LET target == B(<<"o", "m", "i", "t", "e", "m", "p", "t", "y">>)
        opts   == key.options
    IN  \E i \in 1..Len(opts) :
            /\ i + Len(target) - 1 <= Len(opts)
            /\ SubSeq(opts, i, i + Len(target) - 1) = target
            /\ i = 1 \/ opts[i - 1] = Ascii(",")
            /\ i + Len(target) > Len(opts) \/ opts[i + Len(target)] = Ascii(",")

\* isEmpty on a value of type t
isEmpty(v, t) ==
    CASE t.kind = "int"       -> v = 0
      [] t.kind = "string"    -> Len(v) = 0
      [] t.kind = "slice"     -> Len(v) = 0
      [] t.kind = "pointer"   -> v.nil
      [] t.kind = "interface" -> v.k = "nil"
      [] OTHER                -> FALSE

RECURSIVE marshal(_, _)

\* the loop of encoder.marshalMap over the sorted keys
RECURSIVE marshalMap(_, _)
marshalMap(v, keys) ==
    IF keys = <<>> THEN Encoded(<<>>)
    ELSE Follow(Follow(Encoded(marshalString(Head(keys))),
                       marshal(v[Head(keys)], Kind("interface", <<>>))),
                marshalMap(v, Tail(keys)))

\* the loop of encoder.marshalArray from the ith element on
RECURSIVE marshalArray(_, _, _)
marshalArray(v, t, i) ==
    IF i > Len(v) THEN Encoded(<<>>)
    ELSE Follow(marshal(v[i], t.of), marshalArray(v, t, i + 1))

\* the loop of encoder.marshalStruct over the ordered fields
RECURSIVE marshalStruct(_, _, _)
marshalStruct(v, t, keys) ==
    IF keys = <<>> THEN Encoded(<<>>)
    ELSE LET key == parseField(t.of[Head(keys)])
             d   == v[Head(keys)]
         IN  IF omitempty(key) /\ isEmpty(d, t.of[Head(keys)].type)
             THEN marshalStruct(v, t, Tail(keys))
             ELSE Follow(Follow(Encoded(marshalString(key.name)),
                                marshal(d, t.of[Head(keys)].type)),
                         marshalStruct(v, t, Tail(keys)))

\* encoder.marshal on a value of type t; a value in an interface carries
\* its own type
marshal(v, t) ==
    LET d == Encoded(<<Ascii("d")>>)
        l == Encoded(<<Ascii("l")>>)
        e == Encoded(<<Ascii("e")>>)
    IN  CASE t.kind = "int" ->
                 Encoded(<<Ascii("i")>> \o Itoa(v) \o <<Ascii("e")>>)
          [] t.kind = "string" -> Encoded(marshalString(v))
          [] t.kind = "slice" -> Follow(Follow(l, marshalArray(v, t, 1)), e)
          [] t.kind = "struct" ->
                 Follow(Follow(d, marshalStruct(v, t,
                     order(t, {i \in 1..Len(t.of) : parseField(t.of[i]).ok}))),
                        e)
          [] t.kind = "pointer" ->
                 IF v.nil THEN ElemPanic ELSE marshal(v.v, t.of)
          [] t.kind = "interface" ->
                 CASE v.k = "nil" -> ElemPanic
                   [] v.k = "int64" -> marshal(v.v, Kind("int", <<>>))
                   [] v.k = "string" -> marshal(v.v, Kind("string", <<>>))
                   [] v.k = "slice" ->
                         marshal(v.v, Kind("slice", Kind("interface", <<>>)))
                   [] v.k = "map" ->
                         Follow(Follow(d, marshalMap(v.v,
                                              SortKeys(DOMAIN v.v))), e)

\* bencode.Marshal(v) for a v of type t
Marshal(v, t) == marshal(v, t)

(* ------------------------ values to round-trip ------------------------ *)

\* the type of the target of a decode into new(any)
AnyType == Kind("interface", <<>>)

\* integers and byte strings as an interface holds them
Atoms ==
    {[k |-> "int64", v |-> n] : n \in {0, 7, 0 - 3, 10}}
        \cup {[k |-> "string", v |-> str] :
                  str \in {<<>>, B(<<"a">>), B(<<"l", "e">>)}}

\* the []any of up to n elements of S
Lists(S, n) ==
    {[k |-> "slice", v |-> l] : l \in UNION {[1..m -> S] : m \in 0..n}}

\* the map[string]any with keys in K and values in S
Maps(S, K) ==
    {[k |-> "map", v |-> m] : m \in UNION {[D -> S] : D \in SUBSET K}}

\* atoms, and the containers that hold at most one atom
Inner == Atoms \cup Lists(Atoms, 1) \cup Maps(Atoms, {B(<<"a">>)})

\* the values Marshal is given: anything in Inner, and lists and
\* dictionaries of those
RoundTripValues ==
    Inner \cup Lists(Inner, MaxElems)
          \cup Maps(Inner, {<<>>, B(<<"a">>), B(<<"B">>)})

\* the inputs Unmarshal is given first: every valid input of ScanInputs
CanonicalInputs == {d \in ScanInputs : Valid(d)}

InitRoundTrip ==
    /\ CoordOff
    /\ codec \in {[pc |-> "value", from |-> "value", type |-> AnyType,
                    value |-> v, data |-> <<>>, out |-> Decoded(0, 0),
                    again |-> Encoded(<<>>)] : v \in RoundTripValues}
               \cup {[pc |-> "data", from |-> "input", type |-> AnyType,
                       value |-> [k |-> "nil"], data |-> d,
                       out |-> Decoded(0, 0),
                       again |-> Encoded(<<>>)] : d \in CanonicalInputs}
    /\ dl = [pc |-> "off"]
    /\ cn = [pc |-> "off"]
    /\ mgr = [pc |-> "off"]
    /\ collector = [pc |-> "off"]
    /\ bitfield = [pc |-> "off"]

\* a call of bencode.Marshal(v); its output is the next input of Unmarshal
CallMarshal ==
    /\ codec.pc = "value"
    /\ LET r == Marshal(codec.value, codec.type)
       IN  codec' = [codec EXCEPT !.pc = IF r.panic THEN "panicked" ELSE "data",
                                  !.data = r.data]
    /\ UNCHANGED <<downloadVars, dl, cn, mgr, collector, bitfield>>

\* a call of bencode.Marshal on what Unmarshal decoded
MarshalDecoded ==
    /\ codec.pc = "decoded"
    /\ ~codec.out.panic
    /\ codec.out.err = "nil"
    /\ codec' = [codec EXCEPT !.pc = "encoded",
                              !.again = Marshal(codec.out.v, codec.type)]
    /\ UNCHANGED <<downloadVars, dl, cn, mgr, collector, bitfield>>

NextRoundTrip == CallMarshal \/ CallUnmarshal \/ MarshalDecoded

\* values encoded and decoded again, inputs decoded and encoded again
SpecRoundTrip == InitRoundTrip /\ [][NextRoundTrip]_vars

(* ------------------------- structs to encode -------------------------- *)

\* the struct singleFile of the metainfo loader
singleFile ==
    Kind("struct",
         <<[Name |-> B(<<"L", "e", "n", "g", "t", "h">>),
            Tag  |-> B(<<"l", "e", "n", "g", "t", "h">>),
            type |-> Kind("int", <<>>)],
           [Name |-> B(<<"P", "a", "t", "h">>),
            Tag  |-> B(<<"p", "a", "t", "h">>),
            type |-> Kind("slice", Kind("string", <<>>))]>>)

\* the struct info of the metainfo loader
info ==
    Kind("struct",
         <<[Name |-> B(<<"P", "i", "e", "c", "e", "L", "e", "n">>),
            Tag  |-> B(<<"p", "i", "e", "c", "e", " ",
                         "l", "e", "n", "g", "t", "h">>),
            type |-> Kind("int", <<>>)],
           [Name |-> B(<<"P", "i", "e", "c", "e", "s">>),
            Tag  |-> B(<<"p", "i", "e", "c", "e", "s">>),
            type |-> Kind("string", <<>>)],
           [Name |-> B(<<"N", "a", "m", "e">>),
            Tag  |-> B(<<"n", "a", "m", "e">>),
            type |-> Kind("string", <<>>)],
           [Name |-> B(<<"L", "e", "n", "g", "t", "h">>),
            Tag  |-> B(<<"l", "e", "n", "g", "t", "h", ",",
                         "o", "m", "i", "t", "e", "m", "p", "t", "y">>),
            type |-> Kind("int", <<>>)],
           [Name |-> B(<<"F", "i", "l", "e", "s">>),
            Tag  |-> B(<<"f", "i", "l", "e", "s", ",",
                         "o", "m", "i", "t", "e", "m", "p", "t", "y">>),
            type |-> Kind("slice", singleFile)]>>)

\* the struct file of the metainfo loader
file ==
    Kind("struct",
         <<[Name |-> B(<<"I", "n", "f", "o">>),
            Tag  |-> B(<<"i", "n", "f", "o">>),
            type |-> Kind("pointer", info)],
           [Name |-> B(<<"A", "n", "n", "o", "u", "n", "c", "e">>),
            Tag  |-> B(<<"a", "n", "n", "o", "u", "n", "c", "e">>),
            type |-> Kind("string", <<>>)],
           [Name |-> B(<<"D", "a", "t", "e">>),
            Tag  |-> B(<<"c", "r", "e", "a", "t", "i", "o", "n", " ",
                         "d", "a", "t", "e">>),
            type |-> Kind("int", <<>>)],
           [Name |-> B(<<"C", "o", "m", "m", "e", "n", "t">>),
            Tag  |-> B(<<"c", "o", "m", "m", "e", "n", "t">>),
            type |-> Kind("string", <<>>)],
           [Name |-> B(<<"A", "u", "t", "h", "o", "r">>),
            Tag  |-> B(<<"c", "r", "e", "a", "t", "e", "d", " ", "b", "y">>),
            type |-> Kind("string", <<>>)]>>)

\* some values of singleFile
SingleFiles ==
    {<<0, <<>>>>, <<3, <<B(<<"a">>)>>>>, <<3, <<B(<<"a">>), B(<<"b">>)>>>>}

\* some values of info, with up to MaxElems files
Infos ==
    {<<pl, ps, nm, ln, fs>> :
        pl \in {0, 4}, ps \in {<<>>, B(<<"a", "b">>)},
        nm \in {<<>>, B(<<"n">>)}, ln \in {0, 7},
        fs \in UNION {[1..m -> SingleFiles] : m \in 0..MaxElems}}

\* some values of file, the nil Info among them
Files ==
    {<<[nil |-> TRUE], an, dt, <<>>, B(<<"m">>)>> :
        an \in {<<>>, B(<<"u">>)}, dt \in {0, 9}}
        \cup {<<[nil |-> FALSE, v |-> i], an, 9, <<>>, B(<<"m">>)>> :
                 an \in {<<>>, B(<<"u">>)},
                 i \in {j \in Infos : Len(j[5]) <= 1}}

\* some values of T
Ts == [1..6 -> {<<>>, B(<<"a">>)}]

\* the encoder's runs that start with a value of V, of the type t
EncodeRuns(t, V) ==
    {[pc |-> "value", type |-> t, value |-> v, data |-> <<>>,
      valid |-> FALSE] : v \in V}

InitEncode ==
    /\ CoordOff
    /\ \/ codec \in EncodeRuns(info, Infos)
       \/ codec \in EncodeRuns(file, Files)
       \/ codec \in EncodeRuns(T, Ts)
       \/ codec \in EncodeRuns(AnyType,
                                Maps(Atoms, {<<>>, B(<<"a">>), B(<<"B">>)}))
    /\ dl = [pc |-> "off"]
    /\ cn = [pc |-> "off"]
    /\ mgr = [pc |-> "off"]
    /\ collector = [pc |-> "off"]
    /\ bitfield = [pc |-> "off"]

NextEncode == CallMarshal \/ CallValid

\* structs and maps encoded, the output given to the scanner
SpecEncode == InitEncode /\ [][NextEncode]_vars

(* ----------------------- metainfo documents --------------------------- *)

\* one entry of a dictionary: the key and the encoded value
Entry(key, raw) == marshalString(key) \o raw

\* i<n>e
RawInt(n) == <<Ascii("i")>> \o Itoa(n) \o <<Ascii("e")>>

\* the info value of a document, its keys in canonical order: files or not,
\* a length or none (-1), a name or not, and after the declared keys no
\* other key, the string source or the integer private
InfoSpan(fl, ln, nm, ex) ==
    <<Ascii("d")>>
    \o (IF fl
        THEN Entry(B(<<"f", "i", "l", "e", "s">>),
                   B(<<"l", "d">>)
                   \o Entry(B(<<"l", "e", "n", "g", "t", "h">>), RawInt(3))
                   \o Entry(B(<<"p", "a", "t", "h">>), B(<<"l", "1", ":", "a", "e">>))
                   \o B(<<"e", "e">>))
        ELSE <<>>)
    \o (IF ln >= 0
        THEN Entry(B(<<"l", "e", "n", "g", "t", "h">>), RawInt(ln))
        ELSE <<>>)
    \o (IF nm
        THEN Entry(B(<<"n", "a", "m", "e">>), B(<<"1", ":", "n">>))
        ELSE <<>>)
    \o Entry(B(<<"p", "i", "e", "c", "e", " ", "l", "e", "n", "g", "t", "h">>),
             RawInt(4))
    \o Entry(B(<<"p", "i", "e", "c", "e", "s">>),
             marshalString([i \in 1..HashLen |-> Ascii("h")]))
    \o (CASE ex = "source" ->
                 Entry(B(<<"s", "o", "u", "r", "c", "e">>), B(<<"1", ":", "x">>))
          [] ex = "private" ->
                 Entry(B(<<"p", "r", "i", "v", "a", "t", "e">>), RawInt(1))
          [] OTHER -> <<>>)
    \o <<Ascii("e")>>

\* a metainfo document around an info value, with an announce key or not
Document(an, span) ==
    <<Ascii("d")>>
    \o (IF an
        THEN Entry(B(<<"a", "n", "n", "o", "u", "n", "c", "e">>),
                   B(<<"1", ":", "u">>))
        ELSE <<>>)
    \o Entry(B(<<"i", "n", "f", "o">>), span)
    \o <<Ascii("e")>>

InitInfoHash ==
    /\ CoordOff
    /\ codec \in {[pc |-> "data", type |-> file,
                   data |-> Document(an, InfoSpan(fl, ln, nm, ex)),
                   span |-> InfoSpan(fl, ln, nm, ex), extra |-> ex,
                   out |-> Decoded(0, 0), hashed |-> Encoded(<<>>)] :
                      an \in BOOLEAN, fl \in BOOLEAN, ln \in {-1, 0, 7},
                      nm \in BOOLEAN, ex \in {"none", "source", "private"}}
    /\ dl = [pc |-> "off"]
    /\ cn = [pc |-> "off"]
    /\ mgr = [pc |-> "off"]
    /\ collector = [pc |-> "off"]
    /\ bitfield = [pc |-> "off"]

\* file.Torrent on the file that Open decoded, up to the bytes that
\* info.hash gives to sha1.Sum
TorrentHash ==
    /\ codec.pc = "decoded"
    /\ ~codec.out.panic
    /\ codec.out.err = "nil"
    /\ codec' = [codec EXCEPT !.pc = "hashed",
                              !.hashed = Marshal(codec.out.v[1],
                                                 Kind("pointer", info))]
    /\ UNCHANGED <<downloadVars, dl, cn, mgr, collector, bitfield>>

NextInfoHash == CallUnmarshal \/ TorrentHash

\* documents opened and their info hashed
SpecInfoHash == InitInfoHash /\ [][NextInfoHash]_vars

(* ----------------------- the loader's descriptor ---------------------- *)

\* most hashes the pieces string of an info of this section holds
MaxHashes == 3

\* the largest piece length of an info of this section
MaxPieceLen == 3

\* info.hashes: the pieces string cut into hashes, or the error
hashes(i) ==
    IF Len(i[2]) % HashLen # 0
    THEN [err |-> "malformed piece hash string", v |-> <<>>]
    ELSE [err |-> "nil",
          v   |-> [k \in 1..(Len(i[2]) \div HashLen) |->
                       SubSeq(i[2], (k - 1) * HashLen + 1, k * HashLen)]]

\* file.length: Info.Length of a single-file info, or else the sum of the
\* lengths of the files
RECURSIVE length(_)
length(i) ==
    IF Len(i[5]) = 0 THEN i[4]
    ELSE i[5][1][1] + length(<<i[1], i[2], i[3], 0, Tail(i[5])>>)

\* file.Torrent on a file whose Info is i: the descriptor or the error
Torrent(i) ==
    [err         |-> hashes(i).err,
     PieceHashes |-> hashes(i).v,
     PieceLength |-> i[1],
     Length      |-> length(i)]

\* Torrent.pieceLen on the descriptor t
pieceLenOf(t, index) ==
    LET begin == index * t.PieceLength
        end   == begin + t.PieceLength
    IN  IF end > t.Length THEN t.Length - begin ELSE t.PieceLength

\* the pieces strings: n hashes, or n hashes and a byte more
PiecesStrings ==
    {[k \in 1..m |-> (k - 1) \div HashLen] :
        m \in {n * HashLen : n \in 0..MaxHashes} \cup {HashLen + 1}}

\* the decoded infos the loader is given
LoaderInfos ==
    {<<pl, ps, B(<<"n">>), ln, fs>> :
        pl \in 0..MaxPieceLen, ps \in PiecesStrings,
        ln \in -1..(MaxHashes * MaxPieceLen + 1),
        fs \in {<<>>, <<<<3, <<B(<<"a">>)>>>>, <<2, <<B(<<"b">>)>>>>>>}}

InitLoader ==
    /\ CoordOff
    /\ codec \in {[pc |-> "file", info |-> i, torrent |-> Torrent(<<0, <<>>, <<>>, 0, <<>>>>),
                   work |-> <<>>] : i \in LoaderInfos}
    /\ dl = [pc |-> "off"]
    /\ cn = [pc |-> "off"]
    /\ mgr = [pc |-> "off"]
    /\ collector = [pc |-> "off"]
    /\ bitfield = [pc |-> "off"]

\* a call of file.Torrent
CallTorrent ==
    /\ codec.pc = "file"
    /\ LET t == Torrent(codec.info)
       IN  codec' = [codec EXCEPT
                        !.pc = IF t.err = "nil" THEN "torrent" ELSE "failed",
                        !.torrent = t]
    /\ UNCHANGED <<downloadVars, dl, cn, mgr, collector, bitfield>>

\* one round of the loop of scheduleWork: the next piece goes to d.work
ScheduleNext ==
    /\ codec.pc = "torrent"
    /\ Len(codec.work) < Len(codec.torrent.PieceHashes)
    /\ LET index == Len(codec.work)
       IN  codec' = [codec EXCEPT !.work = Append(@,
                        [index  |-> index,
                         hash   |-> codec.torrent.PieceHashes[index + 1],
                         length |-> pieceLenOf(codec.torrent, index)])]
    /\ UNCHANGED <<downloadVars, dl, cn, mgr, collector, bitfield>>

NextLoader == CallTorrent \/ ScheduleNext

\* infos turned into descriptors, and their pieces into work items
SpecLoader == InitLoader /\ [][NextLoader]_vars

(* ------------------------ compact peer lists -------------------------- *)

\* most bytes a peer list of this section has
MaxListLen == 12

\* const peerLen: the bytes of one peer
peerLen == 6

\* a little-endian reading of the port
Uint16Mutant(b) == b[2] * 256 + b[1]

\* binary.BigEndian.Uint16
Uint16(b) == b[1] * 256 + b[2]

\* the loop of peer.Unmarshal from the peer i on
RECURSIVE peerLoop(_, _, _)
peerLoop(buffer, number, i) ==
    IF i >= number THEN <<>>
    ELSE LET offset == i * peerLen
         IN  <<[IP   |-> SubSeq(buffer, offset + 1, offset + 4),
                Port |-> Uint16(SubSeq(buffer, offset + 5, offset + 6))]>>
             \o peerLoop(buffer, number, i + 1)

\* peer.Unmarshal(buffer): the peers and the error
peerUnmarshal(buffer) ==
    LET number == Len(buffer) \div peerLen
    IN  IF Len(buffer) % peerLen # 0
        THEN [peers |-> <<>>, err |-> "malformed peer list"]
        ELSE [peers |-> peerLoop(buffer, number, 0), err |-> "nil"]

InitPeerList ==
    /\ CoordOff
    /\ codec \in {[pc |-> "buffer", buffer |-> b,
                   out |-> [peers |-> <<>>, err |-> "nil"]] :
                      b \in UNION {[1..n -> {1, 255}] : n \in 0..MaxListLen}}
    /\ dl = [pc |-> "off"]
    /\ cn = [pc |-> "off"]
    /\ mgr = [pc |-> "off"]
    /\ collector = [pc |-> "off"]
    /\ bitfield = [pc |-> "off"]

\* the call of peer.Unmarshal that ends Torrent.Peers
CallPeerUnmarshal ==
    /\ codec.pc = "buffer"
    /\ codec' = [codec EXCEPT !.pc = "parsed",
                              !.out = peerUnmarshal(codec.buffer)]
    /\ UNCHANGED <<downloadVars, dl, cn, mgr, collector, bitfield>>

NextPeerList == CallPeerUnmarshal

\* peer lists of every length up to MaxListLen, parsed
SpecPeerList == InitPeerList /\ [][NextPeerList]_vars

(* ------------------------ saving a multi-file torrent -------------------- *)

\* the files of a torrent and the bytes of a file, at most
MaxFiles == 3
MaxFileLen == 3

\* the sum of the first j file lengths
RECURSIVE LengthsBefore(_, _)
LengthsBefore(lens, j) ==
    IF j = 0 THEN 0 ELSE lens[j] + LengthsBefore(lens, j - 1)

\* pieces.Get(i) for a torrent of total bytes in pieces of pl bytes, each
\* byte standing for its offset in the torrent
StoredPiece(total, pl, i) ==
    LET first == i * pl
        last  == IF first + pl > total THEN total ELSE first + pl
    IN  [k \in 1..(last - first) |-> first + k - 1]

\* saveMultiFile, the closure nextFile: the next file is created and left is
\* its length; Files[fileIndex] past the last file panics
nextFile(lens, st) ==
    IF st.fileIndex >= Len(lens)
    THEN [st EXCEPT !.panic = TRUE]
    ELSE [st EXCEPT !.files = Append(@, <<>>),
                    !.fileIndex = @ + 1,
                    !.left = lens[st.fileIndex + 1]]

\* file.Write(b) on the file that is open
fileWrite(st, b) ==
    [st EXCEPT !.files[Len(st.files)] = @ \o b]

\* saveMultiFile, the inner loop "repeat until whole piece is consumed":
\* the piece is cut at consumed at the top of every run of the loop
RECURSIVE consumePiece(_, _, _, _)
consumePiece(lens, st, piece, consumed) ==
    IF st.panic \/ consumed > Len(piece)
    THEN [st EXCEPT !.panic = TRUE]
    ELSE With(SubSeq(piece, consumed + 1, Len(piece)),
              LAMBDA rest :
                 IF st.left >= Len(rest)
                 THEN [fileWrite(st, rest) EXCEPT !.left = @ - Len(rest)]
                 ELSE IF st.left = 0
                 THEN consumePiece(lens, nextFile(lens, st), rest, consumed)
                 ELSE consumePiece(lens,
                                   [fileWrite(st, SubSeq(rest, 1, st.left))
                                       EXCEPT !.left = 0],
                                   rest, consumed + st.left))

\* saveMultiFile, the loop pieceLoop from the piece i on
RECURSIVE pieceLoop(_, _, _, _, _)
pieceLoop(lens, total, pl, st, i) ==
    IF st.panic \/ i >= (total + pl - 1) \div pl THEN st
    ELSE pieceLoop(lens, total, pl,
                   consumePiece(lens, st, StoredPiece(total, pl, i), 0),
                   i + 1)

\* saveMultiFile(pieces, dst): the bytes written to each file created, in
\* the order of Info.Files, and whether the call panicked
saveMultiFile(lens, pl) ==
    pieceLoop(lens, LengthsBefore(lens, Len(lens)), pl,
              nextFile(lens, [fileIndex |-> 0, left |-> 0, files |-> <<>>,
                              panic |-> FALSE]),
              0)

\* the file lists and piece lengths saved
SaveInputs ==
    {[pc |-> "downloaded", lens |-> l, pl |-> p,
      out |-> [fileIndex |-> 0, left |-> 0, files |-> <<>>, panic |-> FALSE]] :
         l \in UNION {[1..n -> 0..MaxFileLen] : n \in 1..MaxFiles},
         p \in 1..MaxPieceLen}

InitSave ==
    /\ CoordOff
    /\ codec \in SaveInputs
    /\ dl = [pc |-> "off"]
    /\ cn = [pc |-> "off"]
    /\ mgr = [pc |-> "off"]
    /\ collector = [pc |-> "off"]
    /\ bitfield = [pc |-> "off"]

\* file.Save of a torrent with a file list
CallSave ==
    /\ codec.pc = "downloaded"
    /\ codec' = [codec EXCEPT !.pc = "saved",
                              !.out = saveMultiFile(codec.lens, codec.pl)]
    /\ UNCHANGED <<downloadVars, dl, cn, mgr, collector, bitfield>>

NextSave == CallSave

\* every file list of up to MaxFiles files, saved from its pieces
SpecSave == InitSave /\ [][NextSave]_vars

(* ------------------------------ tag options ------------------------------ *)

\* the characters of a bencode tag at most, and the characters tags are
\* written in here: two letters and the comma
MaxTagLen == 5
TagChars == {"a", "b", ","}

\* strings.Split(str, ","): the comma-separated options of str
RECURSIVE Options(_)
Options(str) ==
    IF Cut(str) > Len(str) THEN {str}
    ELSE {SubSeq(str, 1, Cut(str) - 1)}
            \cup Options(SubSeq(str, Cut(str) + 1, Len(str)))

InitContains ==
    /\ CoordOff
    /\ codec \in {[pc |-> "field",
                    f |-> parseField([Tag |-> B(tag), Name |-> B(<<"F">>)]),
                    target |-> B(t), rest |-> <<>>, out |-> FALSE] :
                      tag \in UNION {[1..n -> TagChars] : n \in 0..MaxTagLen},
                      t \in {<<"a">>, <<"b">>}}
    /\ dl = [pc |-> "off"]
    /\ cn = [pc |-> "off"]
    /\ mgr = [pc |-> "off"]
    /\ collector = [pc |-> "off"]
    /\ bitfield = [pc |-> "off"]

\* field.contains(target) is entered: rest := f.options
callContains ==
    /\ codec.pc = "field"
    /\ codec' = [codec EXCEPT !.pc = "loop", !.rest = codec.f.options]
    /\ UNCHANGED <<downloadVars, dl, cn, mgr, collector, bitfield>>

\* field.contains: one run of the for loop.  "option, rest, _ :=" declares
\* a rest of the loop body, so the rest the next run cuts is the one before
containsLoop ==
    /\ codec.pc = "loop"
    /\ codec' = IF SubSeq(codec.rest, 1, Cut(codec.rest) - 1) = codec.target
                THEN [codec EXCEPT !.pc = "returned", !.out = TRUE]
                ELSE IF Cut(codec.rest) >= Len(codec.rest)
                THEN [codec EXCEPT !.pc = "returned", !.out = FALSE]
                ELSE [codec EXCEPT !.rest = codec.rest]
    /\ UNCHANGED <<downloadVars, dl, cn, mgr, collector, bitfield>>

NextContains ==
    \/ callContains
    \/ containsLoop

\* field.contains on the options of every tag of up to MaxTagLen characters
SpecContains == InitContains /\ [][NextContains]_vars

\* the goroutine that called contains keeps running
FairSpecContains == SpecContains /\ WF_vars(NextContains)

(* ----------------------- the tasks at d.peerNum -------------------------- *)

\* the results of a download followed here, at most
MaxResults == 2

\* start has run its go statements: checkWorkers and managePieces are at
\* their receives and startWorkers is about to run, for a download of
\* pieceNum pieces from n peers
NewTasks(n, m) ==
    [pc |-> "startWorkers", peers |-> n, pieceNum |-> m, peerNum |-> 0,
     session |-> [s \in Sessions |-> "off"], sent |-> 0, queued |-> 0,
     watcher |-> "recv", manager |-> "recv", done |-> 0, printed |-> <<>>]

InitPeerNum ==
    /\ CoordOff
    /\ codec = [pc |-> "off"]
    /\ collector \in {NewTasks(n, m) : n \in 1..MaxPeers, m \in 1..MaxResults}
    /\ dl = [pc |-> "off"]
    /\ cn = [pc |-> "off"]
    /\ mgr = [pc |-> "off"]
    /\ bitfield = [pc |-> "off"]

\* startWorkers: d.peerNum = len(d.peers), and the go statement of every
\* session
setPeerNum ==
    /\ collector.pc = "startWorkers"
    /\ collector' = [collector EXCEPT
                       !.pc = "started",
                       !.peerNum = collector.peers,
                       !.session = [s \in Sessions |->
                                      IF s <= collector.peers THEN "loop"
                                      ELSE "off"]]
    /\ UNCHANGED <<downloadVars, dl, cn, mgr, bitfield, codec>>

\* connectToPeer: a session sends the result of a piece on d.pieces, which
\* has room for every piece
deliver(s) ==
    /\ collector.session[s] = "loop"
    /\ collector.sent < collector.pieceNum
    /\ collector' = [collector EXCEPT !.sent = @ + 1, !.queued = @ + 1]
    /\ UNCHANGED <<downloadVars, dl, cn, mgr, bitfield, codec>>

\* connectToPeer returns: the deferred send on d.death is pending
die(s) ==
    /\ collector.session[s] = "loop"
    /\ collector' = [collector EXCEPT !.session[s] = "dying"]
    /\ UNCHANGED <<downloadVars, dl, cn, mgr, bitfield, codec>>

\* checkWorkers: for range d.death receives the death of a session
receiveDeath(s) ==
    /\ collector.watcher = "recv"
    /\ collector.session[s] = "dying"
    /\ collector' = [collector EXCEPT !.session[s] = "dead",
                                      !.watcher = "decrement"]
    /\ UNCHANGED <<downloadVars, dl, cn, mgr, bitfield, codec>>

\* checkWorkers: d.peerNum-- and the test of d.peerNum
decrementPeerNum ==
    /\ collector.watcher = "decrement"
    /\ collector' = [collector EXCEPT
                       !.peerNum = @ - 1,
                       !.watcher = IF collector.peerNum - 1 = 0
                                   THEN "done" ELSE "recv"]
    /\ UNCHANGED <<downloadVars, dl, cn, mgr, bitfield, codec>>

\* managePieces: piece := <-d.pieces
receivePiece ==
    /\ collector.manager = "recv"
    /\ collector.queued > 0
    /\ collector' = [collector EXCEPT !.queued = @ - 1, !.manager = "print"]
    /\ UNCHANGED <<downloadVars, dl, cn, mgr, bitfield, codec>>

\* managePieces: fmt.Printf of the piece and of d.peerNum, the Put, and the
\* loop test
printPiece ==
    /\ collector.manager = "print"
    /\ collector' = [collector EXCEPT
                       !.printed = Append(@, collector.peerNum),
                       !.done = @ + 1,
                       !.manager = IF collector.done + 1 < collector.pieceNum
                                   THEN "recv" ELSE "done"]
    /\ UNCHANGED <<downloadVars, dl, cn, mgr, bitfield, codec>>

NextPeerNum ==
    \/ setPeerNum
    \/ \E s \in Sessions : deliver(s)
    \/ \E s \in Sessions : die(s)
    \/ \E s \in Sessions : receiveDeath(s)
    \/ decrementPeerNum
    \/ receivePiece
    \/ printPiece

\* the goroutines that read or write d.peerNum, step by step
SpecPeerNum == InitPeerNum /\ [][NextPeerNum]_vars

(* ----------------------------- claims --------------------------------- *)

\* the sessions startWorkers started
Spawned == IF startPc = "done" THEN 1..Len(peers) ELSE {}

\* the piece indices manager.Put was called with
PutIndices == {putLog[k].index : k \in 1..Len(putLog)}

\* a session is at one of its sends to d.work
Requeueing(s) == sess[s].pc \in {"requeueLack", "requeueErr", "requeueBad"}

\* C1: Put is never called twice for the same piece index, and when
\* managePieces emits the Completed outcome the indices Put was called with
\* are exactly 0..pieceNum-1.
C1_PutOncePerIndex ==
    /\ \A j, k \in 1..Len(putLog) :
          putLog[j].index = putLog[k].index => j = k
    /\ collectorPc \in {"sendComplete", "done"} =>
          PutIndices = 0..(pieceNum - 1)

\* two pieces have been Put while one session has died after a failed
\* download and another is still at work
C1_Witness ==
    /\ Len(putLog) = 2
    /\ \E s, t \in Spawned :
          /\ sess[s].pc = "dead"
          /\ ~sess[s].conn.nil
          /\ sess[t].pc = "recvWork"

\* C2: every piece result on d.pieces, and every piece handed to Put, has
\* bytes whose SHA-1 is the work item's hash and whose length is the work
\* item's length.
C2_ResultsVerified ==
    \A r \in {pieces[k] : k \in 1..Len(pieces)} \cup
             {putLog[k] : k \in 1..Len(putLog)} :
          /\ Sha1(r.value) = WorkItem(r.index).hash
          /\ Len(r.value) = WorkItem(r.index).length

\* a result is on d.pieces while a session holds a block that failed the
\* integrity check
C2_Witness ==
    /\ pieces # <<>>
    /\ \E s \in Spawned : sess[s].pc = "requeueBad"

\* C3: start returns ErrWorkersDead only when managePieces has not consumed
\* all pieceNum results; once it has, start returns success.
C3_CompletedNeverDead ==
    (mainPc = "done" /\ err = "ErrWorkersDead") => done < pieceNum

FullBitfield == [k \in 1..((pieceNum + 7) \div 8) |-> 255]

\* C5: every run of start eventually receives an outcome and returns; stated
\* here for the runs in which every spawned session has connected to a peer
\* that advertises every piece.
C5_StartReturns ==
    (/\ mainPc = "wait"
     /\ Spawned # {}
     /\ \A s \in Spawned :
           ~sess[s].conn.nil /\ sess[s].conn.Bitfield = FullBitfield)
       ~> (mainPc = "done")

\* C6: when the tracker returns no peer and the torrent has a piece, start
\* returns an error.
C6_NoPeersFatal ==
    (mainPc = "wait" /\ Len(peers) = 0 /\ pieceNum >= 1)
       ~> (mainPc = "done" /\ err # "nil")

\* C7: d.work never holds more than pieceNum items, and whenever
\* scheduleWork or a session is at a send to d.work the channel has room.
C7_WorkNeverFull ==
    /\ BagCardinality(work) <= pieceNum
    /\ ((feederPc = "run" /\ feedIdx < pieceNum) \/
        (\E s \in Sessions : Requeueing(s)))
          => BagCardinality(work) < WorkCap

\* every other piece is queued on d.work when a session is about to put its
\* piece back
C7_Witness ==
    /\ pieceNum = MaxPieces
    /\ feedIdx = pieceNum
    /\ BagCardinality(work) = pieceNum - 1
    /\ \E s \in Spawned : Requeueing(s)

\* C8: a session whose block fails the integrity check puts the piece back
\* and terminates.
C8_BadHashTerminates ==
    [][\A s \in Sessions :
          (sess[s].pc = "requeueBad" /\ sess'[s].pc # "requeueBad")
             => sess'[s].pc = "dying"]_vars

\* C9: a session whose downloadPiece failed puts the piece on d.work once,
\* reports its death and takes no further work item.
C9_FailureRequeuesAndDies ==
    [][\A s \in Sessions :
          /\ (sess[s].pc = "download" /\ sess'[s].pc = "requeueErr")
                => sess'[s].piece = sess[s].piece
          /\ (sess[s].pc = "requeueErr" /\ sess'[s].pc # "requeueErr")
                => /\ sess'[s].pc = "dying"
                   /\ CopiesIn(sess[s].piece, work')
                         = CopiesIn(sess[s].piece, work) + 1
                   /\ BagCardinality(work') = BagCardinality(work) + 1
          /\ sess[s].pc \in {"dying", "dead"}
                => sess'[s].pc \in {"dying", "dead"}]_vars

\* a session is reporting its death after a failed download, and the work
\* channel, still open, holds a piece its peer has
C9_Witness ==
    \E s \in Spawned :
       /\ sess[s].pc = "dying"
       /\ ~sess[s].conn.nil
       /\ ~workClosed
       /\ \E p \in BagToSet(work) : Has(sess[s].conn.Bitfield, p.index)

\* C10: a session that took a work item whose bit is not set in the peer's
\* bitfield puts the item back unchanged, has sent no request for it, and
\* goes on to the next receive.
C10_LackRequeuesAndContinues ==
    [][\A s \in Sessions :
          /\ (sess[s].pc = "recvWork" /\ sess'[s].pc # "recvWork"
                 /\ sess'[s].piece # NoPiece
                 /\ ~Has(sess[s].conn.Bitfield, sess'[s].piece.index))
                => sess'[s].pc = "requeueLack"
          /\ (sess[s].pc = "requeueLack" /\ sess'[s].pc # "requeueLack")
                => /\ sess'[s].pc = "recvWork"
                   /\ ~sess[s].requested
                   /\ CopiesIn(sess[s].piece, work')
                         = CopiesIn(sess[s].piece, work) + 1
                   /\ BagCardinality(work') = BagCardinality(work) + 1]_vars

\* a session holds piece 8, which a bitfield of two bytes covers and the
\* peer's bitfield does not have
C10_Witness ==
    \E s \in Spawned :
       /\ sess[s].pc = "requeueLack"
       /\ sess[s].piece.index = 8
       /\ Len(sess[s].conn.Bitfield) = 2

\* the death reports checkWorkers has received
Deaths == Cardinality({s \in Spawned : sess[s].pc \in {"dead", "panicked"}})

\* C11: every spawned session that has ended has sent exactly one death
\* report (d.peerNum is the number of peers less the sessions that ended),
\* and no failure inside a session takes the process down.
C11_SessionsContained ==
    /\ startPc = "done" => peerNum = Len(peers) - Deaths
    /\ ~crashed

\* C12: over a run at most one of checkWorkers and managePieces comes to a
\* send on d.result, and once start has returned none of them is blocked at
\* such a send.
C12_SingleOutcome ==
    /\ ~(/\ watcherPc \in {"sendDead", "closeDeath", "done"}
         /\ collectorPc \in {"sendComplete", "done"})
    /\ mainPc = "done" =>
          (watcherPc # "sendDead" /\ collectorPc # "sendComplete")

C14_BacklogBounded == Cardinality(dl.unanswered) <= Backlog

\* the frame read in the bitfield slot is a bitfield message
IsBitfieldFrame(r) == ~r.err /\ ~r.nil /\ r.Identifier = Bitfield

\* C15: in the bitfield slot getBitfield reads one frame; when the frame is
\* a bitfield message its payload is conn.Bitfield and the Conn is
\* returned, and for anything else (another identifier, a keep-alive, a
\* failed read) NewConn returns an error and no Conn.
C15_FirstFrameIsBitfield ==
    /\ cn.frames \in {0, 1}
    /\ cn.frames = 1 =>
          IF IsBitfieldFrame(cn.r)
          THEN /\ cn.pc \in {"unchoke", "interested", "ready", "closed"}
               /\ cn.err = "nil"
               /\ ~cn.nil
               /\ cn.Bitfield = cn.r.Payload
          ELSE /\ cn.pc = "failed"
               /\ cn.err # "nil"
               /\ cn.nil

\* C16: a session that has ended (it is reporting its death, or has) and
\* that had opened its socket has closed it.
C16_SocketClosed ==
    \A s \in Sessions :
       sess[s].pc \in {"dying", "dead"} => sess[s].sock # "open"

\* C20: when the peer's handshake has been read, Conn.handshake succeeds
\* exactly when the protocol name is ProtocolName and the info-hash is the
\* torrent's, whatever the reserved bytes and the peer identifier are; when
\* it fails NewConn returns an error and no Conn.
C20_HandshakeVerified ==
    (/\ cn.pc \notin {"dial", "handshake"}
     /\ cn.sock # "none"
     /\ ~cn.io.writeErr
     /\ ~cn.io.readErr)
       => /\ cn.hsErr = "nil" <=>
                (/\ cn.io.res.Protocol = ProtocolName
                 /\ cn.io.res.InfoHash = InfoHash)
          /\ cn.hsErr # "nil" =>
                (cn.pc = "failed" /\ cn.nil /\ cn.err = cn.hsErr)

\* a session is at its work loop after a handshake whose reserved bytes and
\* peer identifier are not the client's
C20_Witness ==
    /\ cn.pc = "ready"
    /\ cn.hsErr = "nil"
    /\ cn.io.res.Reserved # NewHandshake(InfoHash, Name).Reserved
    /\ cn.io.res.Identifier # Name

\* C17: when manager.Put has returned an error for a piece, the download
\* does not report Completed.
C17_PutErrorFatal ==
    collector.result = "Completed" => collector.failed = {}

\* C18: a call of Put, Get or Close made before any Init has succeeded, or
\* after a Close has succeeded, returns ErrManagerClosed.
C18_ClosedManagerRefuses ==
    [][(/\ mgr'.calls = mgr.calls + 1
        /\ mgr'.last.op \in {"Put", "Get", "Close"}
        /\ (~mgr.initialised \/ mgr.closed))
          => mgr'.last.ret = "ErrManagerClosed"]_vars

\* bit j of a byte slice, the most significant bit of a byte first
BitAt(bits, j) == (bits[(j \div 8) + 1] \div Pow2(7 - (j % 8))) % 2

\* the bits in which two byte slices of one length differ
BitsChanged(a, b) == {j \in 0..(8 * Len(a) - 1) : BitAt(a, j) # BitAt(b, j)}

\* C19: for a bitfield of n bytes and an index i in [0, 8n): after Set(i)
\* Has(i) is true, after Clear(i) Has(i) is false, a second Set(i) changes
\* nothing, and Set and Clear change no bit but bit i; for i outside
\* [0, 8n) Set and Clear change nothing and Has returns false.
C19_BitfieldLaws ==
    LET b == bitfield
        inside == 0 <= b.i /\ b.i < 8 * Len(b.bits)
    IN  /\ Len(b.bits) = Len(b.prev)
        /\ (b.op = "Set" /\ inside) =>
              /\ Has(b.bits, b.i)
              /\ Set(b.bits, b.i) = b.bits
              /\ BitsChanged(b.prev, b.bits) \subseteq {b.i}
        /\ (b.op = "Clear" /\ inside) =>
              /\ ~Has(b.bits, b.i)
              /\ BitsChanged(b.prev, b.bits) \subseteq {b.i}
        /\ (b.op \in {"Set", "Clear"} /\ ~inside) => b.bits = b.prev
        /\ (b.op = "Has" /\ ~inside) => ~b.ret

\* C21: Read(Serialize(m)) returns a message equal to m for every
\* identifier and payload; the frame is the 4-byte big-endian length
\* len(payload) + 1, then the identifier, then the payload; the nil message
\* serializes to the 4-byte keep-alive frame of length 0, which Read returns
\* as nil without an error
C21_MessageRoundTrip ==
    LET m     == codec.m
        frame == Serialize(m)
    IN  /\ (codec.pc \in {"frame", "read"} /\ codec.whole) =>
              /\ SubSeq(codec.frame, 1, Len(frame)) = frame
              /\ IF m.nil
                 THEN frame = <<0, 0, 0, 0>>
                 ELSE /\ Len(frame) = 4 + 1 + Len(m.Payload)
                      /\ Uint32(SubSeq(frame, 1, 4)) = Len(m.Payload) + 1
                      /\ frame[5] = m.Identifier
                      /\ SubSeq(frame, 6, Len(frame)) = m.Payload
        /\ (codec.pc = "read" /\ codec.whole) =>
              /\ ~codec.out.err
              /\ codec.out.nil = m.nil
              /\ ~m.nil => /\ codec.out.Identifier = m.Identifier
                           /\ codec.out.Payload = m.Payload

\* a message with the longest payload was serialized, followed by another
\* message, and read back
C21_Witness ==
    /\ codec.pc = "read"
    /\ codec.whole
    /\ ~codec.m.nil
    /\ Len(codec.m.Payload) = MaxPayload
    /\ Len(codec.frame) > Len(Serialize(codec.m))
    /\ codec.out = codec.m

\* C22: for every handshake h whose protocol is "BitTorrent protocol",
\* ReadHandshake(Serialize(h)) equals h, and Serialize(h) is 49 + |protocol|
\* bytes: the length byte, the protocol name, 8 reserved bytes, the 20-byte
\* info-hash and the 20-byte peer identifier
C22_HandshakeRoundTrip ==
    LET h == codec.h
        b == codec.bytes
        n == Len(h.Protocol)
    IN  (codec.pc \in {"bytes", "read"} /\ codec.whole
            /\ h.Protocol = ProtocolBytes) =>
           /\ Len(b) = 49 + n
           /\ b[1] = n
           /\ SubSeq(b, 2, 1 + n) = h.Protocol
           /\ SubSeq(b, 2 + n, 9 + n) = h.Reserved
           /\ SubSeq(b, 10 + n, 29 + n) = h.InfoHash
           /\ SubSeq(b, 30 + n, 49 + n) = h.Identifier
           /\ codec.pc = "read" =>
                 /\ ~codec.out.err
                 /\ codec.out.Protocol = h.Protocol
                 /\ codec.out.Reserved = h.Reserved
                 /\ codec.out.InfoHash = h.InfoHash
                 /\ codec.out.Identifier = h.Identifier

\* a handshake of the protocol whose reserved bytes, info-hash and
\* identifier all differ was serialized and read back
C22_Witness ==
    /\ codec.pc = "read"
    /\ codec.whole
    /\ codec.h.Protocol = ProtocolBytes
    /\ codec.h.InfoHash # codec.h.Identifier
    /\ codec.h.Reserved[1] # 0
    /\ ~codec.out.err

\* the value of a string of digits
RECURSIVE NumVal(_)
NumVal(t) ==
    IF t = <<>> THEN 0
    ELSE 10 * NumVal(SubSeq(t, 1, Len(t) - 1)) + (t[Len(t)] - Ascii("0"))

\* the grammar's nonneg_int: '0', or a nonzero digit and digits
IsNonNeg(t) ==
    /\ t # <<>>
    /\ \A k \in 1..Len(t) : t[k] \in Ascii("0")..Ascii("9")
    /\ t[1] = Ascii("0") => Len(t) = 1

\* the grammar's int: 'i' ('-'? nonzero_digit digit* | '0') 'e'
IsInt(t) ==
    /\ Len(t) >= 3
    /\ t[1] = Ascii("i")
    /\ t[Len(t)] = Ascii("e")
    /\ LET n == SubSeq(t, 2, Len(t) - 1)
       IN  \/ IsNonNeg(n)
           \/ /\ n[1] = Ascii("-")
              /\ IsNonNeg(Tail(n))
              /\ Tail(n) # <<Ascii("0")>>

\* the grammar's bytes: nonneg_int ':' raw_bytes{len}
IsBytes(t) ==
    \E k \in 1..Len(t) :
        /\ t[k] = Ascii(":")
        /\ IsNonNeg(SubSeq(t, 1, k - 1))
        /\ Len(t) - k = NumVal(SubSeq(t, 1, k - 1))

\* the key of a bytes value
KeyOf(t) ==
    LET k == CHOOSE j \in 1..Len(t) : t[j] = Ascii(":") /\
                 \A i \in 1..(j - 1) : t[i] # Ascii(":")
    IN  SubSeq(t, k + 1, Len(t))

RECURSIVE IsValue(_), IsValues(_), IsEntries(_, _, _)

\* the grammar's value*
IsValues(t) ==
    \/ t = <<>>
    \/ \E k \in 1..Len(t) :
          IsValue(SubSeq(t, 1, k)) /\ IsValues(SubSeq(t, k + 1, Len(t)))

\* the grammar's (bytes value)*, after the key prev unless this is the
\* first entry, with strictly increasing keys
IsEntries(t, first, prev) ==
    \/ t = <<>>
    \/ \E j \in 1..Len(t) : \E k \in (j + 1)..Len(t) :
          /\ IsBytes(SubSeq(t, 1, j))
          /\ first \/ StrLess(prev, KeyOf(SubSeq(t, 1, j)))
          /\ IsValue(SubSeq(t, j + 1, k))
          /\ IsEntries(SubSeq(t, k + 1, Len(t)), FALSE,
                       KeyOf(SubSeq(t, 1, j)))

\* the grammar's value := int | bytes | list | dict
IsValue(t) ==
    \/ IsInt(t)
    \/ IsBytes(t)
    \/ /\ Len(t) >= 2
       /\ t[1] = Ascii("l")
       /\ t[Len(t)] = Ascii("e")
       /\ IsValues(SubSeq(t, 2, Len(t) - 1))
    \/ /\ Len(t) >= 2
       /\ t[1] = Ascii("d")
       /\ t[Len(t)] = Ascii("e")
       /\ IsEntries(SubSeq(t, 2, Len(t) - 1), TRUE, <<>>)

\* the inputs the scanner's test accepts
ValidTests ==
    {B(<<"d", "e">>), B(<<"l", "e">>), B(<<"i", "0", "e">>),
     B(<<"i", "1", "e">>), B(<<"i", "-", "1", "e">>), B(<<"0", ":">>),
     B(<<"1", ":", "a">>)}

\* the inputs the scanner's test rejects
InvalidTests ==
    {<<>>, B(<<"d">>), B(<<"l">>), B(<<"i">>), B(<<"1">>),
     B(<<"d", "e", "e">>), B(<<"l", "e", "e">>), B(<<"i", "e", "e">>),
     B(<<"i", "e">>), B(<<"1", ":">>), B(<<"i", "0", "1", "e">>),
     B(<<"i", "-", "0", "e">>), B(<<"d", "e", "d", "e">>)}

\* C23: Valid accepts exactly the inputs that are one complete value of the
\* grammar followed by nothing: it accepts de, le, i0e, i1e, i-1e, 0: and
\* 1:a, and rejects the empty input, unterminated values, values closed more
\* than once, missing data, leading zeros, negative zero and bytes after the
\* first top-level value
C23_ValidIsGrammar ==
    codec.pc = "scanned" =>
        /\ codec.valid <=> IsValue(codec.data)
        /\ codec.data \in ValidTests => codec.valid
        /\ codec.data \in InvalidTests => ~codec.valid

\* Valid was called on 1:a and accepted it
C23_Witness ==
    /\ codec.pc = "scanned"
    /\ codec.data = B(<<"1", ":", "a">>)
    /\ codec.valid

\* a comes before b in lexicographic byte order
LexLess(a, b) ==
    \E k \in 1..Len(b) :
        /\ \A j \in 1..(k - 1) : j <= Len(a) /\ a[j] = b[j]
        /\ k = Len(a) + 1 \/ (k <= Len(a) /\ a[k] < b[k])

\* C24: the scanner accepts a dictionary only if its keys are strictly
\* increasing in lexicographic byte order: a dictionary, at any nesting
\* depth, in which a key is equal to or smaller than the key before it is
\* rejected, and every dictionary with strictly increasing keys and valid
\* values is accepted
C24_KeysStrictlyIncreasing ==
    (codec.pc = "scanned" /\ "keys" \in DOMAIN codec) =>
        (codec.valid <=>
            \A k \in 1..(Len(codec.keys) - 1) :
                LexLess(codec.keys[k], codec.keys[k + 1]))

\* a nested dictionary whose key of ten bytes comes before the key b was
\* accepted
C24_Witness ==
    /\ codec.pc = "scanned"
    /\ "keys" \in DOMAIN codec
    /\ codec.nest = "value"
    /\ codec.keys = <<[k \in 1..10 |-> Ascii("a")], B(<<"b">>)>>
    /\ codec.valid

\* the value the field of T with the key c has after decoding
TField(c) ==
    LET i == CHOOSE j \in 1..Len(T.of) : parseField(T.of[j]).name = B(<<c>>)
    IN  codec.out.v[i]

\* C25: when a valid dictionary is decoded into a struct, every key that
\* matches no field is ignored together with its value, whatever the kind
\* of the value (integer, string, list or dictionary): decoding succeeds,
\* the fields of the matching keys receive their values, and every field
\* without a key keeps its zero value
C25_UnknownKeysIgnored ==
    codec.pc = "decoded" =>
        /\ Valid(codec.data)
        /\ ~codec.out.panic
        /\ codec.out.err = "nil"
        /\ \A c \in {"-", "B", "C", "X", "Y"} :
              TField(c) = IF c \in codec.present THEN TValues[c] ELSE <<>>
        /\ codec.out.v[6] = <<>>

\* C26: a value built from integers, byte strings, lists and string-keyed
\* dictionaries comes back from Unmarshal(Marshal(v)) into an any target
\* as v, and a valid canonical input s comes back from
\* Marshal(Unmarshal(s)) as s.
C26_RoundTrip ==
    /\ codec.pc # "panicked"
    /\ codec.pc \in {"decoded", "encoded"} =>
           /\ ~codec.out.panic
           /\ codec.out.err = "nil"
           /\ codec.from = "value" => codec.out.v = codec.value
    /\ codec.pc = "encoded" =>
           /\ ~codec.again.panic
           /\ codec.again.data = codec.data

\* a dictionary of two keys, one of them holding a list, went through
\* Marshal, Unmarshal and Marshal again
C26_Witness ==
    /\ codec.pc = "encoded"
    /\ codec.from = "value"
    /\ codec.value.k = "map"
    /\ DOMAIN codec.value.v = {B(<<"a">>), B(<<"B">>)}
    /\ codec.value.v[B(<<"B">>)].k = "slice"
    /\ Len(codec.value.v[B(<<"B">>)].v) = 1

\* the keys of the dictionary that the decoder finds in the data
KeysIn(data) == DOMAIN Unmarshal(data, AnyType).v.v

C28_HashOverSourceBytes ==
    codec.pc = "hashed" =>
        /\ ~codec.hashed.panic
        /\ codec.hashed.data = codec.span

\* the sum of the lengths of the work items
RECURSIVE SumOfLengths(_)
SumOfLengths(items) ==
    IF items = <<>> THEN 0 ELSE Head(items).length + SumOfLengths(Tail(items))

\* C29: of the n work items enqueued for a descriptor of the loader, the
\* item of an index below n-1 has the length piece_length and the last one
\* total_length - (n-1) * piece_length, every length lies in
\* (0, piece_length], and the n lengths sum to total_length.
C29_WorkItemLengths ==
    codec.pc = "torrent" =>
        LET t == codec.torrent
            n == Len(t.PieceHashes)
        IN  /\ \A k \in 1..Len(codec.work) :
                   /\ k - 1 < n - 1 => codec.work[k].length = t.PieceLength
                   /\ k - 1 = n - 1 =>
                          codec.work[k].length
                              = t.Length - (n - 1) * t.PieceLength
                   /\ codec.work[k].length > 0
                   /\ codec.work[k].length <= t.PieceLength
            /\ Len(codec.work) = n => SumOfLengths(codec.work) = t.Length

\* C30: a compact peer list of a length L that is not a multiple of 6 is
\* answered with the malformed-peer-list error; any other is answered with
\* L/6 peers in the order of the input, peer k with the address bytes
\* 6k..6k+3 and the port that bytes 6k+4..6k+5 spell in big-endian.
C30_CompactPeers ==
    codec.pc = "parsed" =>
        LET L == Len(codec.buffer)
            byte(k) == codec.buffer[k + 1]
        IN  IF L % 6 # 0
            THEN codec.out.err = "malformed peer list"
            ELSE /\ codec.out.err = "nil"
                 /\ Len(codec.out.peers) * 6 = L
                 /\ \A k \in 0..(Len(codec.out.peers) - 1) :
                        /\ codec.out.peers[k + 1].IP
                               = <<byte(6 * k), byte(6 * k + 1),
                                   byte(6 * k + 2), byte(6 * k + 3)>>
                        /\ codec.out.peers[k + 1].Port
                               = 256 * byte(6 * k + 4) + byte(6 * k + 5)

\* a list of two peers was parsed, the second with the port 0x01ff
C30_Witness ==
    /\ codec.pc = "parsed"
    /\ Len(codec.out.peers) = 2
    /\ codec.out.peers[2].Port = 511
    /\ codec.out.peers[1].Port = 65281

\* C31: a piece message is accepted only if its index is the current
\* piece's, begin < len(buf) and begin + len(block) <= len(buf); an accepted
\* block is copied to buf at begin and its length is what downloaded grows
\* by; a rejected message is an error that leaves the buffer, downloaded
\* and backlog as they were.
C31_ParsePieceFrame ==
    [][(/\ dl.pc = "loop"
        /\ dl'.read = dl.read + 1
        /\ ~dl'.last.err
        /\ ~dl'.last.nil
        /\ dl'.last.Identifier = Piece) =>
           LET msg == dl'.last
               n   == msg.Payload.size - 8
           IN  IF dl'.pc # "failed"
               THEN /\ msg.Payload.size >= 8
                    /\ msg.Payload.index = dl.index
                    /\ msg.Payload.begin < dl.length
                    /\ msg.Payload.begin + n <= dl.length
                    /\ dl'.written
                           = dl.written
                                 \cup {[begin |-> msg.Payload.begin, n |-> n]}
                    /\ dl'.downloaded = dl.downloaded + n
               ELSE /\ dl'.written = dl.written
                    /\ dl'.downloaded = dl.downloaded
                    /\ dl'.backlog = dl.backlog]_vars

\* a block of one byte was accepted at the offset MaxBlockSize of the
\* current piece
C31_Witness ==
    /\ dl.pc = "loop"
    /\ dl.last = Message(Piece, Payload(9, dl.index, MaxBlockSize))
    /\ [begin |-> MaxBlockSize, n |-> 1] \in dl.written

\* the sum of the sizes of the first k requests sent
RECURSIVE SizesBefore(_, _)
SizesBefore(sent, k) ==
    IF k = 0 THEN 0 ELSE sent[k].size + SizesBefore(sent, k - 1)

\* C32: within one piece download the kth request begins where the earlier
\* requests end, the first at 0, and asks for min(MaxBlockSize, len - begin)
\* bytes, more than none; no offset is requested twice and the requested
\* counter never exceeds len.
C32_RequestsContiguous ==
    dl.pc \in {"loop", "failed"} =>
        /\ \A k \in 1..Len(dl.sent) :
               /\ dl.sent[k].index = dl.index
               /\ dl.sent[k].begin = SizesBefore(dl.sent, k - 1)
               /\ dl.sent[k].size > 0
               /\ dl.sent[k].size
                      = IF dl.length - dl.sent[k].begin < MaxBlockSize
                        THEN dl.length - dl.sent[k].begin
                        ELSE MaxBlockSize
               /\ \A j \in 1..(k - 1) : dl.sent[j].begin < dl.sent[k].begin
        /\ dl.requested = SizesBefore(dl.sent, Len(dl.sent))
        /\ dl.requested <= dl.length

\* the three requests of a piece of two blocks and a byte were sent
C32_Witness ==
    /\ dl.pc = "loop"
    /\ Len(dl.sent) = 3
    /\ dl.sent[3] = [index |-> dl.index, begin |-> 2 * MaxBlockSize, size |-> 1]

\* the end of the furthest accepted block that holds the byte at offset p
FurthestEnd(written, p) ==
    LET ends == {b.begin + b.n : b \in {w \in written : w.begin <= p /\ p < w.begin + w.n}}
    IN  IF ends = {} THEN p ELSE CHOOSE e \in ends : \A f \in ends : f <= e

\* every byte of buf[p:len] was written by some accepted block
RECURSIVE WrittenFrom(_, _, _)
WrittenFrom(written, p, len) ==
    IF p >= len THEN TRUE
    ELSE IF FurthestEnd(written, p) = p THEN FALSE
    ELSE WrittenFrom(written, FurthestEnd(written, p), len)

\* C38: during a piece download 0 <= backlog and downloaded <= requested <=
\* length, whatever the peer sends, and when downloadPiece leaves its loop
\* to return the buffer downloaded = length and every byte of the buffer was
\* written by an accepted block.
C38_CountersConsistent ==
    dl.pc = "loop" =>
        /\ 0 <= dl.backlog
        /\ dl.downloaded <= dl.requested
        /\ dl.requested <= dl.length
        /\ dl.downloaded >= dl.length =>
              /\ dl.downloaded = dl.length
              /\ WrittenFrom(dl.written, 0, dl.length)

\* the bytes the file j of a saved torrent holds: none when it was not created
SavedBytes(out, j) == IF j <= Len(out.files) THEN out.files[j] ELSE <<>>

\* C39: saving a multi-file torrent gives the file j the bytes at the
\* offsets [l_1+..+l_(j-1), l_1+..+l_j) of the concatenation of the pieces,
\* none skipped, repeated or in the wrong file.
C39_FilesSplitAtBoundaries ==
    codec.pc = "saved" =>
        /\ ~codec.out.panic
        /\ \A j \in 1..Len(codec.lens) :
              SavedBytes(codec.out, j)
                  = [k \in 1..codec.lens[j] |->
                        LengthsBefore(codec.lens, j - 1) + k - 1]

\* C40: field.contains(target) returns, and returns whether target is one
\* of the comma-separated options of the field.
C40_ContainsTerminates ==
    <>(/\ codec.pc = "returned"
       /\ codec.out = (codec.target \in Options(codec.f.options)))

\* where the first event e is in the sequence w, 0 when it is not there
RECURSIVE FirstAt(_, _, _)
FirstAt(w, e, k) ==
    IF k > Len(w) THEN 0
    ELSE IF w[k] = e THEN k
    ELSE FirstAt(w, e, k + 1)

RECURSIVE CountIn(_, _, _)
CountIn(q, i, k) ==
    IF k > Len(q) THEN 0
    ELSE (IF q[k].index = i THEN 1 ELSE 0) + CountIn(q, i, k + 1)

\* the places the piece index i is in: still to be sent by scheduleWork,
\* queued on d.work, held by a session, queued on d.pieces, given to
\* manager.Put
PlacesOf(i) ==
    (IF i >= feedIdx THEN 1 ELSE 0)
    + CopiesIn(WorkItem(i), work)
    + Cardinality({s \in Sessions : sess[s].piece.index = i})
    + CountIn(pieces, i, 1)
    + CountIn(putLog, i, 1)

\* C36: every piece index of the torrent is in exactly one place: not yet
\* sent by the work feeder, queued on work, held by one session, queued on
\* results, or handed to the piece store.
C36_PieceConservation ==
    \A i \in 0..(pieceNum - 1) : PlacesOf(i) = 1

\* a piece that failed its download was given back, taken again by the
\* other session and stored, while the first session has died
C36_Witness ==
    /\ \E s \in Sessions : sess[s].pc = "dead"
    /\ \E s \in Sessions : sess[s].pc = "requeueBad"
    /\ Len(putLog) > 0

\* the sends on an already closed channel that some task is about to make
ClosedSends ==
    {s \in Sessions : /\ sess[s].pc \in {"requeueLack", "requeueErr", "requeueBad"}
                      /\ workClosed}
       \cup {s \in Sessions : sess[s].pc = "sendPiece" /\ piecesClosed}
       \cup {s \in Sessions : sess[s].pc \in {"dying", "panicking"} /\ deathClosed}
       \cup {0 : x \in {feedIdx} \cap {i \in 0..(pieceNum - 1) :
                                          feederPc = "run" /\ workClosed}}

\* C37: no task is ever at a send on a channel that was closed: no session
\* at a requeue after close(d.work), none at the send of a result after
\* close(d.pieces), none at its death report after close(d.death), and the
\* work feeder not at a send after close(d.work).
C37_NoSendOnClosed == ClosedSends = {}

\* the three channels were closed, each after its last send: every session
\* found the work stream ended and its death report was received
C37_Witness ==
    /\ workClosed
    /\ piecesClosed
    /\ deathClosed
    /\ peerNum = 0
    /\ Len(peers) = MaxPeers
    /\ \A s \in Sessions : sess[s].pc = "dead" /\ sess[s].sock = "closed"

\* every session that was started has ended: its death report was received
AllSessionsDead ==
    /\ startPc = "done"
    /\ \A s \in 1..Len(peers) : sess[s].pc \in {"dead", "panicked"}

AtPeerNum ==
    (IF collector.pc = "startWorkers" THEN {"startWorkers"} ELSE {})
       \cup (IF collector.watcher = "decrement" THEN {"checkWorkers"} ELSE {})
       \cup (IF collector.manager = "print" THEN {"managePieces"} ELSE {})

\* C34: once the sessions are started only checkWorkers reads or writes
\* d.peerNum, and never are two tasks at an access of it together (accesses
\* that no channel operation orders).
C34_PeerNumOwned ==
    collector.pc \in {"startWorkers", "started"} =>
        /\ collector.pc = "started" => AtPeerNum \subseteq {"checkWorkers"}
        /\ Cardinality(AtPeerNum) <= 1

====
